---- MODULE Spec2Model ----
(***************************************************************************)
(* Tripledoc: the in-memory triple document model.                         *)
(*                                                                         *)
(* Two generations of the document module are in the repository:           *)
(*   - src/unnamed/part_001: the snapshot document (N3 quads held by the   *)
(*     document, save() returns a new document);                           *)
(*   - src/unnamed/part_000: the store-backed document (rdflib store,      *)
(*     save() calls onSave on the saved subjects).                         *)
(* Spec is the snapshot document, SpecStore the store-backed one.  Both    *)
(* use the subject's pending buffers of src/src/subject.ts.                *)
(***************************************************************************)
EXTENDS Integers, Sequences, FiniteSets, TLC

\* ------------------------------------------------------------------ bounds

\* Document instances that may exist (created, fetched or returned by save).
MaxDocs == 3
\* Documents obtained by createDocument / fetchDocument.
MaxRoots == 1
\* save() calls.
MaxSaves == 2
\* A staging call is made while fewer statements than this are staged in all
\* pending buffers together.
MaxStaged == 2
\* Statements in a fetched document.
MaxFetched == 1
\* Subject handles obtained from all documents together.
MaxSubjects == 2

\* ------------------------------------------------------------- vocabulary

\* Document IRIs.
DocRefs == {"https://x.com/doc"}
\* Subject IRIs.
SubjectRefs == {"https://x.com/doc#s1", "https://x.com/doc#s2"}
\* Predicate IRIs.
PredicateRefs == {"https://x.com/p"}
\* metadata.aclRef / metadata.webSocketRef when the header is absent.
NoRef == "null"
\* A resolved Link rel="acl" target, an Updates-Via value.
AclRefs == {"https://x.com/doc.acl"}
WebSocketRefs == {"wss://x.com"}

XsdString == "http://www.w3.org/2001/XMLSchema#string"

\* A literal without a language tag, and one with.
LangLiteral(v, lang, dt) ==
  [termType |-> "Literal", value |-> v, language |-> lang, datatype |-> dt]
Literal(v, dt) == LangLiteral(v, "", dt)
NamedNode(v) == [termType |-> "NamedNode", value |-> v]
BlankNode(v) == [termType |-> "BlankNode", value |-> v]

\* ------------------------------------------------- native values and text

XsdInteger == "http://www.w3.org/2001/XMLSchema#integer"
XsdDecimal == "http://www.w3.org/2001/XMLSchema#decimal"
XsdDateTime == "http://www.w3.org/2001/XMLSchema#dateTime"

\* A native number, in tenths (42 is 4.2), and the number NaN.
Number(tenths) == [type |-> "number", NaN |-> FALSE, tenths |-> tenths]
NaN == [type |-> "number", NaN |-> TRUE, tenths |-> 0]

\* A native Date by its UTC fields (month from 0), and the invalid Date.
Date(year, month, date, hours, minutes, seconds, ms) ==
  [type |-> "Date", invalid |-> FALSE, year |-> year, month |-> month, date |-> date,
   hours |-> hours, minutes |-> minutes, seconds |-> seconds, ms |-> ms]
InvalidDate ==
  [type |-> "Date", invalid |-> TRUE, year |-> 0, month |-> 0, date |-> 0,
   hours |-> 0, minutes |-> 0, seconds |-> 0, ms |-> 0]

Digits == {"0", "1", "2", "3", "4", "5", "6", "7", "8", "9"}
digit(c) == CHOOSE d \in 0..9 : ToString(d) = c

\* The longest prefix of s made of digits.
RECURSIVE leadingDigits(_)
leadingDigits(s) ==
  IF s = "" \/ Head(s) \notin Digits THEN "" ELSE Head(s) \o leadingDigits(Tail(s))

\* The number a string of digits denotes in base 10.
RECURSIVE natural(_)
natural(s) ==
  IF s = "" THEN 0
  ELSE natural(SubSeq(s, 1, Len(s) - 1)) * 10 + digit(SubSeq(s, Len(s), Len(s)))

RECURSIVE trimStart(_)
trimStart(s) == IF s # "" /\ Head(s) = " " THEN trimStart(Tail(s)) ELSE s

\* parseInt(string, 10): leading blanks, a sign, then digits up to the first
\* character that is not one; NaN if there is no digit.
parseInt(string) ==
  LET t == trimStart(string)
      signed == t # "" /\ Head(t) \in {"-", "+"}
      digits == leadingDigits(IF signed THEN Tail(t) ELSE t)
  IN IF digits = "" THEN NaN
     ELSE Number((IF signed /\ Head(t) = "-" THEN -1 ELSE 1) * natural(digits) * 10)

\* parseFloat(string): leading blanks, a sign, digits, and a point with
\* digits, up to the first character that fits no more; NaN if there is no
\* digit.  Numbers are kept to the tenth.
parseFloat(string) ==
  LET t == trimStart(string)
      signed == t # "" /\ Head(t) \in {"-", "+"}
      unsigned == IF signed THEN Tail(t) ELSE t
      digits == leadingDigits(unsigned)
      rest == SubSeq(unsigned, Len(digits) + 1, Len(unsigned))
      fraction == IF rest # "" /\ Head(rest) = "." THEN leadingDigits(Tail(rest)) ELSE ""
      tenth == IF fraction = "" THEN 0 ELSE digit(Head(fraction))
  IN IF digits = "" /\ fraction = "" THEN NaN
     ELSE Number((IF signed /\ Head(t) = "-" THEN -1 ELSE 1) * (natural(digits) * 10 + tenth))

\* Number.prototype.toString of a number to the tenth.
numberToString(value) ==
  LET tenths == IF value.tenths < 0 THEN -value.tenths ELSE value.tenths
      sign == IF value.tenths < 0 THEN "-" ELSE ""
  IN IF value.NaN THEN "NaN"
     ELSE IF tenths % 10 = 0 THEN sign \o ToString(tenths \div 10)
     ELSE sign \o ToString(tenths \div 10) \o "." \o ToString(tenths % 10)

\* Number.isInteger
isInteger(value) == ~value.NaN /\ value.tenths % 10 = 0

\* String.prototype.indexOf of a character: from 0, -1 if absent.
RECURSIVE indexFrom(_, _, _)
indexFrom(s, c, k) ==
  IF k > Len(s) THEN -1
  ELSE IF SubSeq(s, k, k) = c THEN k - 1 ELSE indexFrom(s, c, k + 1)
indexOf(s, c) == indexFrom(s, c, 1)

\* String.prototype.substring: both indices are clamped to the string and
\* swapped if the first is the larger.
substring(s, start, end) ==
  LET clamp(k) == IF k < 0 THEN 0 ELSE IF k > Len(s) THEN Len(s) ELSE k
      from == IF clamp(start) <= clamp(end) THEN clamp(start) ELSE clamp(end)
      to == IF clamp(start) <= clamp(end) THEN clamp(end) ELSE clamp(start)
  IN SubSeq(s, from + 1, to)

\* A native text value (typeof literal === 'string').
Text(s) == [type |-> "string", text |-> s]

\* Native text values and references that callers pass to the subject.
LiteralValues == {Text("a")}
ObjectRefs == {"https://x.com/o"}

\* Literal.fromNumber always giving the datatype decimal.
fromNumberAsDecimal(value) == Literal(numberToString(value), XsdDecimal)

\* Literal.fromNumber(value): the text of the number, as an integer if it is
\* one and as a decimal otherwise.
fromNumber(value) ==
  Literal(numberToString(value), IF isInteger(value) THEN XsdInteger ELSE XsdDecimal)

\* Two digits for a number below 100.
d2(x) == IF x < 10 THEN "0" \o ToString(x) ELSE ToString(x)

\* Literal.fromDate(value): the UTC fields in the layout YYYY-MM-DDTHH:MM:SSZ.
fromDate(value) ==
  Literal(ToString(value.year) \o "-" \o d2(value.month + 1) \o "-" \o d2(value.date)
            \o "T" \o d2(value.hours) \o ":" \o d2(value.minutes) \o ":"
            \o d2(value.seconds) \o "Z",
          XsdDateTime)

\* asLiteral(literal): by the native type of the value.
asLiteral(literal) ==
  IF literal.type = "Date" THEN fromDate(literal)
  ELSE IF literal.type = "number" THEN fromNumber(literal)
  ELSE Literal(literal.text, XsdString)

\* Objects that statements of the model carry.
Objects == {asLiteral(v) : v \in LiteralValues} \cup {NamedNode(r) : r \in ObjectRefs}

Quad(s, p, o, g) == [subject |-> s, predicate |-> p, object |-> o, graph |-> g]

\* The statements a document at `g` may hold.
QuadsOf(g) == {Quad(s, p, o, g) : s \in SubjectRefs, p \in PredicateRefs, o \in Objects}

\* The statements the fetched documents of the model are made of.
FetchedQuads(g) == {q \in QuadsOf(g) : q.subject = "https://x.com/doc#s1"}

\* The Link rel="acl" target and the Updates-Via value of the responses to get
\* and to create: neither header, or both.
ResponseHeaders ==
  {<<NoRef, NoRef>>} \cup (AclRefs \X WebSocketRefs)

\* ------------------------------------------------------------------ state

VARIABLES
  docs,      \* document instances, in order of instantiation
  metas,     \* DocumentMetadata objects (shared by reference between documents)
  subjects,  \* subject handle <<document, subjectRef>> -> its pending buffers
  saves,     \* save() calls: the request sent and what became of it
  pairs      \* the pairs getPendingStatements() has returned to callers

vars == <<docs, metas, subjects, saves, pairs>>

\* -------------------------------------------------------- sequence helpers

InSeq(x, s) == \E i \in DOMAIN s : s[i] = x

RECURSIVE SumLen(_, _)
SumLen(f, S) ==
  IF S = {} THEN 0
  ELSE LET h == CHOOSE x \in S : TRUE
       IN Len(f[h].pendingDeletions) + Len(f[h].pendingAdditions) + SumLen(f, S \ {h})

RECURSIVE SumCleared(_)
SumCleared(s) == IF s = <<>> THEN 0 ELSE Head(s).cleared + SumCleared(Tail(s))

\* The statements staged so far: those pending, and those dropped by onSave.
Staged == SumLen(subjects, DOMAIN subjects) + SumCleared(saves)

SeqsUpTo(S, n) == UNION {[1..k -> S] : k \in 0..n}

\* -------------------------------------------------------------- documents

\* instantiateDocument(documentRef, triples, metadata): a document closes over
\* its reference, its triples, its metadata object and an empty accessedSubjects.
instantiateDocument(documentRef, triples, metadata) ==
  [documentRef |-> documentRef, triples |-> triples, metadata |-> metadata,
   accessedSubjects |-> <<>>]

\* Document accessors.
asRef(d) == docs[d].documentRef
getTriples(d) == docs[d].triples
getAclRef(d) == metas[docs[d].metadata].aclRef
getWebSocketRef(d) == metas[docs[d].metadata].webSocketRef

Init ==
  /\ docs = <<>>
  /\ metas = <<>>
  /\ subjects = <<>>
  /\ saves = <<>>
  /\ pairs = <<>>

\* createDocument(ref): no triples, metadata { existsOnPod: false }.
CreateDocument(ref) ==
  /\ Len(docs) < MaxDocs
  /\ Len(metas) < MaxRoots
  /\ metas' = Append(metas, [existsOnPod |-> FALSE, aclRef |-> NoRef, webSocketRef |-> NoRef])
  /\ docs' = Append(docs, instantiateDocument(ref, <<>>, Len(metas) + 1))
  /\ UNCHANGED <<subjects, saves, pairs>>

\* The URLs of the model by their components; href is the text of a URL.
ParsedURLs ==
  [origin : {"https://x.com"}, pathname : {"/doc"}, search : {"", "?v=1"},
   hash : {"", "#frag"}]
href(u) == u.origin \o u.pathname \o u.search \o u.hash

\* The references callers pass to createDocument and fetchDocument.
Uris == {href(u) : u \in ParsedURLs}

\* new URL(uri): the components of the URL whose text is uri.
URL(uri) == CHOOSE u \in ParsedURLs : href(u) = uri

\* docUrl.origin + docUrl.pathname + docUrl.search
withoutFragment(uri) ==
  LET docUrl == URL(uri) IN docUrl.origin \o docUrl.pathname \o docUrl.search

\* fetchDocument(uri), the get and the parse having succeeded: the reference
\* without its fragment, the parsed triples, the ACL of the Link header, the
\* Updates-Via header, existsOnPod.
FetchDocument(uri, triples, aclRef, webSocketRef) ==
  /\ Len(docs) < MaxDocs
  /\ Len(metas) < MaxRoots
  /\ metas' = Append(metas, [existsOnPod |-> TRUE, aclRef |-> aclRef, webSocketRef |-> webSocketRef])
  /\ docs' = Append(docs, instantiateDocument(withoutFragment(uri), triples, Len(metas) + 1))
  /\ UNCHANGED <<subjects, saves, pairs>>

\* --------------------------------------------------------------- subjects

\* initialiseSubject(document, subjectRef): both pending buffers empty.
initialiseSubject == [pendingDeletions |-> <<>>, pendingAdditions |-> <<>>]

\* getSubject that initialises a subject on every access.
getSubjectAfresh(table, d, subjectRef) ==
  [h \in DOMAIN table \cup {<<d, subjectRef>>} |->
     IF h = <<d, subjectRef>> THEN initialiseSubject ELSE table[h]]

\* getSubject(subjectRef) of document d, on the subjects the documents hold:
\* if (!accessedSubjects[subjectRef]) the subject is initialised; the subject
\* held for subjectRef is returned.
getSubject(table, d, subjectRef) ==
  IF <<d, subjectRef>> \in DOMAIN table
  THEN table
  ELSE [h \in DOMAIN table \cup {<<d, subjectRef>>} |->
          IF h \in DOMAIN table THEN table[h] ELSE initialiseSubject]

\* getSubject(subjectRef) on document d: the memoized handle, made on first access.
GetSubject(d, subjectRef) ==
  /\ d \in DOMAIN docs
  /\ <<d, subjectRef>> \notin DOMAIN subjects
  /\ Cardinality(DOMAIN subjects) < MaxSubjects
  /\ subjects' = [h \in DOMAIN subjects \cup {<<d, subjectRef>>} |->
                    IF h \in DOMAIN subjects THEN subjects[h] ELSE initialiseSubject]
  /\ docs' = [docs EXCEPT ![d].accessedSubjects = Append(@, subjectRef)]
  /\ UNCHANGED <<metas, saves, pairs>>

\* st with the subject's own reference as the graph of the statement.
stInSubjectGraph(h, predicateRef, object) == Quad(h[2], predicateRef, object, h[2])

\* The statement a subject handle makes of a predicate and an object.
st(h, predicateRef, object) == Quad(h[2], predicateRef, object, asRef(h[1]))

\* PushAddition putting the statement before the pending ones.
PushAdditionFirst(h, quad) ==
  subjects' = [subjects EXCEPT ![h].pendingAdditions = <<quad>> \o @]

\* PushAddition that leaves out a statement the buffer already holds.
PushAdditionOnce(h, quad) ==
  subjects' = [subjects EXCEPT ![h].pendingAdditions =
                  IF InSeq(quad, @) THEN @ ELSE Append(@, quad)]

\* pendingAdditions.push(statement)
PushAddition(h, quad) ==
  subjects' = [subjects EXCEPT ![h].pendingAdditions = Append(@, quad)]

\* pendingDeletions.push(statement)
PushDeletion(h, quad) ==
  subjects' = [subjects EXCEPT ![h].pendingDeletions = Append(@, quad)]

\* addLiteral that also writes the statement to the triples of the document.
AddLiteralApplying(h, predicateRef, literal) ==
  /\ h \in DOMAIN subjects
  /\ Staged < MaxStaged
  /\ PushAddition(h, st(h, predicateRef, asLiteral(literal)))
  /\ docs' = [docs EXCEPT ![h[1]].triples = Append(@, st(h, predicateRef, asLiteral(literal)))]
  /\ UNCHANGED <<metas, saves, pairs>>

\* addLiteral(predicateRef, literal)
AddLiteral(h, predicateRef, literal) ==
  /\ h \in DOMAIN subjects
  /\ Staged < MaxStaged
  /\ PushAddition(h, st(h, predicateRef, asLiteral(literal)))
  /\ UNCHANGED <<docs, metas, saves, pairs>>

\* addNodeRef(predicateRef, nodeRef)
AddNodeRef(h, predicateRef, nodeRef) ==
  /\ h \in DOMAIN subjects
  /\ Staged < MaxStaged
  /\ PushAddition(h, st(h, predicateRef, NamedNode(nodeRef)))
  /\ UNCHANGED <<docs, metas, saves, pairs>>

\* removeLiteral(predicateRef, literal)
RemoveLiteral(h, predicateRef, literal) ==
  /\ h \in DOMAIN subjects
  /\ Staged < MaxStaged
  /\ PushDeletion(h, st(h, predicateRef, asLiteral(literal)))
  /\ UNCHANGED <<docs, metas, saves, pairs>>

\* removeNodeRef(predicateRef, nodeRef)
RemoveNodeRef(h, predicateRef, nodeRef) ==
  /\ h \in DOMAIN subjects
  /\ Staged < MaxStaged
  /\ PushDeletion(h, st(h, predicateRef, NamedNode(nodeRef)))
  /\ UNCHANGED <<docs, metas, saves, pairs>>

\* findObjects finding the literals only.
findLiteralObjects(triples, subjectRef, predicateRef, documentRef) ==
  LET found == SelectSeq(triples, LAMBDA t :
                 /\ t.subject = subjectRef /\ t.predicate = predicateRef
                 /\ t.graph = documentRef /\ t.object.termType = "Literal")
  IN [k \in DOMAIN found |-> found[k].object]

\* The objects the document holds for (subject, predicate, document), in order.
RECURSIVE findObjects(_, _, _, _)
findObjects(triples, subjectRef, predicateRef, documentRef) ==
  IF triples = <<>> THEN <<>>
  ELSE LET t == Head(triples)
           rest == findObjects(Tail(triples), subjectRef, predicateRef, documentRef)
       IN IF t.subject = subjectRef /\ t.predicate = predicateRef /\ t.graph = documentRef
          THEN <<t.object>> \o rest
          ELSE rest

\* The statements the document holds for a subject, in order.
subjectTriples(triples, subjectRef, documentRef) ==
  SelectSeq(triples, LAMBDA t : t.subject = subjectRef /\ t.graph = documentRef)

\* currentDeletions with the last object first.
currentDeletionsReversed(h, predicateRef) ==
  LET objects == findObjects(getTriples(h[1]), h[2], predicateRef, asRef(h[1]))
  IN [i \in DOMAIN objects |-> st(h, predicateRef, objects[Len(objects) + 1 - i])]

\* One deletion for every object the document holds for (subject, predicate).
currentDeletions(h, predicateRef) ==
  LET objects == findObjects(getTriples(h[1]), h[2], predicateRef, asRef(h[1]))
  IN [i \in DOMAIN objects |-> st(h, predicateRef, objects[i])]

\* setLiteral / setNodeRef: stage the deletion of every current value, of either
\* kind, then the one new value.
SetObject(h, predicateRef, object) ==
  /\ h \in DOMAIN subjects
  /\ Staged < MaxStaged
  /\ subjects' = [subjects EXCEPT
        ![h].pendingDeletions = @ \o currentDeletions(h, predicateRef),
        ![h].pendingAdditions = Append(@, st(h, predicateRef, object))]
  /\ UNCHANGED <<docs, metas, saves, pairs>>

SetLiteral(h, predicateRef, literal) == SetObject(h, predicateRef, asLiteral(literal))

SetNodeRef(h, predicateRef, nodeRef) == SetObject(h, predicateRef, NamedNode(nodeRef))

\* removeAll(predicateRef): stage the deletion of every current value.
RemoveAll(h, predicateRef) ==
  /\ h \in DOMAIN subjects
  /\ Staged + Len(currentDeletions(h, predicateRef)) <= MaxStaged
  /\ subjects' = [subjects EXCEPT
        ![h].pendingDeletions = @ \o currentDeletions(h, predicateRef)]
  /\ UNCHANGED <<docs, metas, saves, pairs>>

\* removeSubject staging the deletion of the first statement of the subject only.
RemoveSubjectOfFirstStatement(d, subjectRef) ==
  LET h == <<d, subjectRef>>
      all == subjectTriples(getTriples(d), subjectRef, asRef(d))
      cleared == IF all = <<>> THEN <<>> ELSE <<Head(all)>>
      known == getSubject(subjects, d, subjectRef)[h]
  IN /\ d \in DOMAIN docs
     /\ h \in DOMAIN subjects \/ Cardinality(DOMAIN subjects) < MaxSubjects
     /\ Staged + Len(cleared) <= MaxStaged
     /\ subjects' = [k \in DOMAIN subjects \cup {h} |->
                       IF k = h
                       THEN [known EXCEPT !.pendingDeletions = @ \o cleared]
                       ELSE subjects[k]]
     /\ docs' = IF h \in DOMAIN subjects THEN docs
                ELSE [docs EXCEPT ![d].accessedSubjects = Append(@, subjectRef)]
     /\ UNCHANGED <<metas, saves, pairs>>

\* removeSubject(subjectRef): getSubject, then clear() stages the deletion of
\* every statement of the subject.
RemoveSubject(d, subjectRef) ==
  LET h == <<d, subjectRef>>
      cleared == subjectTriples(getTriples(d), subjectRef, asRef(d))
      known == getSubject(subjects, d, subjectRef)[h]
  IN /\ d \in DOMAIN docs
     /\ h \in DOMAIN subjects \/ Cardinality(DOMAIN subjects) < MaxSubjects
     /\ Staged + Len(cleared) <= MaxStaged
     /\ subjects' = [k \in DOMAIN subjects \cup {h} |->
                       IF k = h
                       THEN [known EXCEPT !.pendingDeletions = @ \o cleared]
                       ELSE subjects[k]]
     /\ docs' = IF h \in DOMAIN subjects THEN docs
                ELSE [docs EXCEPT ![d].accessedSubjects = Append(@, subjectRef)]
     /\ UNCHANGED <<metas, saves, pairs>>


\* ---------------------------------------------------------------- getters

\* rdf.type
RdfType == "http://www.w3.org/1999/02/22-rdf-syntax-ns#type"

isLiteral(param) == param.termType = "Literal"

\* isNodeRef accepting whatever is not a literal.
isNotLiteral(value) == value.termType # "Literal"

\* typeof value === 'string' && !isLiteral(value): references are the only
\* objects handed to the getters as strings.
isNodeRef(value) == value.termType = "NamedNode"

\* fromLiteral returning the text of every literal.
fromLiteralAsText(literal) == Text(literal.value)

\* fromLiteral(literal): a Date from the fields of a dateTime, read at fixed
\* positions and set on new Date(0); parseInt of an integer; parseFloat of a
\* decimal; the text of every other literal.  A Date on which NaN is set is
\* invalid; the dateTime literals of the model have every field in its range
\* or not a number.
fromLiteral(literal) ==
  IF literal.datatype = XsdDateTime
  THEN LET utcFullYear == parseInt(substring(literal.value, 0, 4))
           utcMonth == parseInt(substring(literal.value, 5, 7))
           utcDate == parseInt(substring(literal.value, 8, 10))
           utcHours == parseInt(substring(literal.value, 11, 13))
           utcMinutes == parseInt(substring(literal.value, 14, 16))
           utcSeconds == parseInt(substring(literal.value, 17, indexOf(literal.value, "Z")))
       IN IF \E field \in {utcFullYear, utcMonth, utcDate, utcHours, utcMinutes, utcSeconds} :
               field.NaN
          THEN InvalidDate
          ELSE Date(utcFullYear.tenths \div 10, utcMonth.tenths \div 10 - 1,
                    utcDate.tenths \div 10, utcHours.tenths \div 10,
                    utcMinutes.tenths \div 10, utcSeconds.tenths \div 10, 0)
  ELSE IF literal.datatype = XsdInteger THEN parseInt(literal.value)
  ELSE IF literal.datatype = XsdDecimal THEN parseFloat(literal.value)
  ELSE Text(literal.value)

\* The null a literal getter returns.
null == [type |-> "null"]

\* get(predicateNode): the objects held for this subject and the predicate in
\* the subject's document.
get(h, predicateNode) == findObjects(getTriples(h[1]), h[2], predicateNode, asRef(h[1]))

\* getLiteral looking at the first object only.
getLiteralOfFirstObject(h, predicateNode) ==
  LET objects == get(h, predicateNode)
  IN IF objects = <<>> \/ ~isLiteral(Head(objects)) THEN null ELSE fromLiteral(Head(objects))

\* objects.find(isLiteral), null if there is none.
getLiteral(h, predicateNode) ==
  LET literals == SelectSeq(get(h, predicateNode), isLiteral)
  IN IF literals = <<>> THEN null ELSE fromLiteral(Head(literals))

\* getAllLiterals without the filter.
getAllValues(h, predicateNode) ==
  LET objects == get(h, predicateNode)
  IN [k \in DOMAIN objects |-> Text(objects[k].value)]

\* objects.filter(isLiteral).map(fromLiteral)
getAllLiterals(h, predicateNode) ==
  LET literals == SelectSeq(get(h, predicateNode), isLiteral)
  IN [k \in DOMAIN literals |-> fromLiteral(literals[k])]

\* objects.find(isNodeRef), null if there is none.
getNodeRef(h, predicateNode) ==
  LET nodeRefs == SelectSeq(get(h, predicateNode), isNodeRef)
  IN IF nodeRefs = <<>> THEN NoRef ELSE Head(nodeRefs).value

\* objects.filter(isNodeRef)
getAllNodeRefs(h, predicateNode) ==
  LET nodeRefs == SelectSeq(get(h, predicateNode), isNodeRef)
  IN [k \in DOMAIN nodeRefs |-> nodeRefs[k].value]

getType(h) == getNodeRef(h, RdfType)

\* getStatements(): the statements of the subject in its document.
getStatements(h) == subjectTriples(getTriples(h[1]), h[2], asRef(h[1]))

\* ------------------------------------------------------------------- save

\* Object.values(accessedSubjects): the handles in order of first access.
accessedHandles(d) ==
  [i \in DOMAIN docs[d].accessedSubjects |-> <<d, docs[d].accessedSubjects[i]>>]


\* relevantSubjects without the filter.
relevantSubjectsUnfiltered(d, argument) == argument

\* subjects.filter(subject => subject.getDocument().asRef() === documentRef)
relevantSubjects(d, argument) ==
  SelectSeq(argument, LAMBDA h : asRef(h[1]) = asRef(d))

\* The reduce over the relevant subjects: their buffers, concatenated in order.
RECURSIVE allDeletions(_)
allDeletions(handles) ==
  IF handles = <<>> THEN <<>>
  ELSE subjects[Head(handles)].pendingDeletions \o allDeletions(Tail(handles))

RECURSIVE allAdditions(_)
allAdditions(handles) ==
  IF handles = <<>> THEN <<>>
  ELSE subjects[Head(handles)].pendingAdditions \o allAdditions(Tail(handles))

\* newTriples without the filter: the staged deletions are not applied.
newTriplesKeepingDeleted(triples, additions, deletions) ==
  triples \o additions

\* newTriples with a deletion matching every statement of its subject and
\* predicate, whatever the object.
newTriplesMatchingLoosely(triples, additions, deletions) ==
  SelectSeq(triples \o additions, LAMBDA t :
    \A k \in DOMAIN deletions :
      ~(deletions[k].subject = t.subject /\ deletions[k].predicate = t.predicate))

\* triples.concat(allAdditions).filter(t => allDeletions.findIndex(equals) === -1)
newTriples(triples, additions, deletions) ==
  SelectSeq(triples \o additions, LAMBDA t : ~InSeq(t, deletions))

\* request with the test of existsOnPod inverted.
requestByInvertedFlag(existsOnPod, documentRef, deletions, additions) ==
  IF existsOnPod
  THEN [call |-> "create", ref |-> documentRef, deletions |-> <<>>, additions |-> additions]
  ELSE [call |-> "update", ref |-> documentRef, deletions |-> deletions, additions |-> additions]

\* if (!metadata.existsOnPod) create(documentRef, allAdditions)
\* else update(documentRef, allDeletions, allAdditions)
request(existsOnPod, documentRef, deletions, additions) ==
  IF ~existsOnPod
  THEN [call |-> "create", ref |-> documentRef, deletions |-> <<>>, additions |-> additions]
  ELSE [call |-> "update", ref |-> documentRef, deletions |-> deletions, additions |-> additions]

Awaiting == {i \in DOMAIN saves : saves[i].pc = "awaiting"}

\* SaveCall with metadata.existsOnPod set before the request is awaited.
SaveCallMarkingFirst(d, argument) ==
  LET relevant == relevantSubjects(d, argument)
      deletions == allDeletions(relevant)
      additions == allAdditions(relevant)
      meta == metas[docs[d].metadata]
  IN /\ d \in DOMAIN docs
     /\ Len(saves) < MaxSaves
     /\ Len(docs) + Cardinality(Awaiting) < MaxDocs
     /\ saves' = Append(saves,
          [document |-> d,
           argument |-> argument,
           relevantSubjects |-> relevant,
           existedOnPod |-> meta.existsOnPod,
           staged |-> [h \in {argument[i] : i \in DOMAIN argument} |-> subjects[h]],
           newTriples |-> newTriples(getTriples(d), additions, deletions),
           request |-> request(meta.existsOnPod, asRef(d), deletions, additions),
           pc |-> "awaiting",
           result |-> 0,
           cleared |-> 0])
     /\ metas' = [metas EXCEPT ![docs[d].metadata].existsOnPod = TRUE]
     /\ UNCHANGED <<docs, subjects, pairs>>

\* save(subjects) up to its await: the filter, the aggregation, the new
\* triples, and the one request sent.  `argument`, `existedOnPod` and `staged`
\* record what the call was given and what it read.
SaveCall(d, argument) ==
  LET relevant == relevantSubjects(d, argument)
      deletions == allDeletions(relevant)
      additions == allAdditions(relevant)
      meta == metas[docs[d].metadata]
  IN /\ d \in DOMAIN docs
     /\ Len(saves) < MaxSaves
     /\ Len(docs) + Cardinality(Awaiting) < MaxDocs
     /\ saves' = Append(saves,
          [document |-> d,
           argument |-> argument,
           relevantSubjects |-> relevant,
           existedOnPod |-> meta.existsOnPod,
           staged |-> [h \in {argument[i] : i \in DOMAIN argument} |-> subjects[h]],
           newTriples |-> newTriples(getTriples(d), additions, deletions),
           request |-> request(meta.existsOnPod, asRef(d), deletions, additions),
           pc |-> "awaiting",
           result |-> 0,
           cleared |-> 0])
     /\ UNCHANGED <<docs, metas, subjects, pairs>>

\* createdMetadata without `metadata.existsOnPod = true`.
createdMetadataUnmarked(meta, aclRef, webSocketRef) ==
  [existsOnPod |-> meta.existsOnPod,
   aclRef |-> IF aclRef # NoRef THEN aclRef ELSE meta.aclRef,
   webSocketRef |-> IF webSocketRef # NoRef THEN webSocketRef ELSE meta.webSocketRef]

\* The metadata after a successful create: the ACL and the WebSocket reference
\* when the response carries them, existsOnPod set.
createdMetadata(meta, aclRef, webSocketRef) ==
  [existsOnPod |-> TRUE,
   aclRef |-> IF aclRef # NoRef THEN aclRef ELSE meta.aclRef,
   webSocketRef |-> IF webSocketRef # NoRef THEN webSocketRef ELSE meta.webSocketRef]

\* savedDocuments of a mutable document: the new triples also replace those of d.
savedDocumentsInPlace(d, triples) ==
  Append([docs EXCEPT ![d].triples = triples],
         instantiateDocument(asRef(d), triples, docs[d].metadata))

\* The documents after a successful save of d: a new document with the new
\* triples and the metadata object of d.
savedDocuments(d, triples) ==
  Append(docs, instantiateDocument(asRef(d), triples, docs[d].metadata))

\* create() resolved: the response's headers go to the metadata, and save
\* returns a new document.
CreateResolve(i, aclRef, webSocketRef) ==
  /\ i \in Awaiting
  /\ saves[i].request.call = "create"
  /\ LET d == saves[i].document
         m == docs[d].metadata
     IN /\ metas' = [metas EXCEPT ![m] = createdMetadata(@, aclRef, webSocketRef)]
        /\ docs' = savedDocuments(d, saves[i].newTriples)
  /\ saves' = [saves EXCEPT ![i].pc = "resolved", ![i].result = Len(docs) + 1]
  /\ UNCHANGED <<subjects, pairs>>

\* update() resolved: save returns a new document.
UpdateResolve(i) ==
  /\ i \in Awaiting
  /\ saves[i].request.call = "update"
  /\ docs' = savedDocuments(saves[i].document, saves[i].newTriples)
  /\ saves' = [saves EXCEPT ![i].pc = "resolved", ![i].result = Len(docs) + 1]
  /\ UNCHANGED <<metas, subjects, pairs>>

\* create() or update() rejected: save rejects at its await.
rejected(save) == [save EXCEPT !.pc = "rejected"]

\* TransportReject with the new document instantiated although the request failed.
TransportRejectApplying(i) ==
  /\ i \in Awaiting
  /\ saves' = [saves EXCEPT ![i] = rejected(@)]
  /\ docs' = savedDocuments(saves[i].document, saves[i].newTriples)
  /\ UNCHANGED <<metas, subjects, pairs>>

\* TransportReject with existsOnPod set although the request failed.
TransportRejectCommitting(i) ==
  /\ i \in Awaiting
  /\ saves' = [saves EXCEPT ![i] = rejected(@)]
  /\ metas' = [metas EXCEPT ![docs[saves[i].document].metadata].existsOnPod = TRUE]
  /\ UNCHANGED <<docs, subjects, pairs>>

TransportReject(i) ==
  /\ i \in Awaiting
  /\ saves' = [saves EXCEPT ![i] = rejected(@)]
  /\ UNCHANGED <<docs, metas, subjects, pairs>>

\* ---------------------------------------------- the store-backed document

\* onSave emptying the additions only.
onSaveKeepingDeletions(subject) == [subject EXCEPT !.pendingAdditions = <<>>]

\* onSave(): both buffers are emptied.
onSave(subject) == [pendingDeletions |-> <<>>, pendingAdditions |-> <<>>]

\* savedSubjects telling every subject, whether it was saved or not.
savedSubjectsAll(relevant) ==
  [h \in DOMAIN subjects |-> onSave(subjects[h])]

\* relevantSubjects.forEach(subject => subject.onSave())
savedSubjects(relevant) ==
  [h \in DOMAIN subjects |->
     IF InSeq(h, relevant) THEN onSave(subjects[h]) ELSE subjects[h]]

\* getPendingStatements(): [pendingDeletions, pendingAdditions], the two arrays
\* of the subject themselves.  While the subject holds them (`held`) a reader
\* of the pair reads what the subject has pushed since; `deletions` and
\* `additions` are what the arrays were left with when the subject let go of
\* them, and `returned` records what they held when the pair was returned.
getPendingStatements(h) ==
  [subject |-> h, held |-> TRUE, deletions |-> <<>>, additions |-> <<>>,
   returned |-> <<subjects[h].pendingDeletions, subjects[h].pendingAdditions>>]

\* What a caller reads in the two arrays of a pair.
contents(pair) ==
  IF pair.held
  THEN <<subjects[pair.subject].pendingDeletions, subjects[pair.subject].pendingAdditions>>
  ELSE <<pair.deletions, pair.additions>>

\* pendingDeletions = []; pendingAdditions = []: the subject lets go of the
\* arrays it held, which stay as they are.
letGo(pair) ==
  [pair EXCEPT !.held = FALSE,
               !.deletions = subjects[pair.subject].pendingDeletions,
               !.additions = subjects[pair.subject].pendingAdditions]

\* The pairs callers hold after onSave() of the relevant subjects.
savedPairs(relevant) ==
  [k \in DOMAIN pairs |->
     IF pairs[k].held /\ InSeq(pairs[k].subject, relevant)
     THEN letGo(pairs[k])
     ELSE pairs[k]]

\* The pending statements of the handles of `relevant`.
pendingOf(relevant) == SumLen(subjects, {relevant[k] : k \in DOMAIN relevant})

\* fetchDocument(documentRef) of the store-backed document: the statements go
\* to the rdflib store, the document keeps the ACL reference and existsOnPod.
StoreFetchDocument(ref, aclRef) ==
  FetchDocument(ref, <<>>, aclRef, NoRef)

\* if (!metadata.existsOnPod) create(documentRef, allAdditions)
\* else update(allDeletions, allAdditions)
storeRequest(existsOnPod, documentRef, deletions, additions) ==
  IF ~existsOnPod
  THEN [call |-> "create", ref |-> documentRef, deletions |-> <<>>, additions |-> additions]
  ELSE [call |-> "update", ref |-> NoRef, deletions |-> deletions, additions |-> additions]

\* save(subjects) of the store-backed document up to its await.
StoreSaveCall(d, argument) ==
  LET relevant == relevantSubjects(d, argument)
      meta == metas[docs[d].metadata]
  IN /\ d \in DOMAIN docs
     /\ Len(saves) < MaxSaves
     /\ saves' = Append(saves,
          [document |-> d,
           argument |-> argument,
           relevantSubjects |-> relevant,
           existedOnPod |-> meta.existsOnPod,
           staged |-> [h \in {argument[i] : i \in DOMAIN argument} |-> subjects[h]],
           newTriples |-> <<>>,
           request |-> storeRequest(meta.existsOnPod, asRef(d),
                                    allDeletions(relevant), allAdditions(relevant)),
           pc |-> "awaiting",
           result |-> 0,
           cleared |-> 0])
     /\ UNCHANGED <<docs, metas, subjects, pairs>>

\* create() resolved: the ACL goes to the metadata, existsOnPod is set, the
\* saved subjects are told, and save returns them.
StoreCreateResolve(i, aclRef) ==
  /\ i \in Awaiting
  /\ saves[i].request.call = "create"
  /\ metas' = [metas EXCEPT ![docs[saves[i].document].metadata] =
                  createdMetadata(@, aclRef, NoRef)]
  /\ subjects' = savedSubjects(saves[i].relevantSubjects)
  /\ pairs' = savedPairs(saves[i].relevantSubjects)
  /\ saves' = [saves EXCEPT ![i].pc = "resolved", ![i].cleared = pendingOf(saves[i].relevantSubjects)]
  /\ UNCHANGED docs

\* update() resolved: the saved subjects are told, and save returns them.
StoreUpdateResolve(i) ==
  /\ i \in Awaiting
  /\ saves[i].request.call = "update"
  /\ subjects' = savedSubjects(saves[i].relevantSubjects)
  /\ pairs' = savedPairs(saves[i].relevantSubjects)
  /\ saves' = [saves EXCEPT ![i].pc = "resolved", ![i].cleared = pendingOf(saves[i].relevantSubjects)]
  /\ UNCHANGED <<docs, metas>>

\* ---------------------------------------------------------- specification

Handles == (1..MaxDocs) \X SubjectRefs

Staging ==
  \E h \in Handles, p \in PredicateRefs :
    \/ \E v \in LiteralValues : AddLiteral(h, p, v)
    \/ \E r \in ObjectRefs : AddNodeRef(h, p, r)
    \/ \E v \in LiteralValues : RemoveLiteral(h, p, v)
    \/ \E r \in ObjectRefs : RemoveNodeRef(h, p, r)

Replacing ==
  \E h \in Handles, p \in PredicateRefs :
    \/ \E v \in LiteralValues : SetLiteral(h, p, v)
    \/ \E r \in ObjectRefs : SetNodeRef(h, p, r)
    \/ RemoveAll(h, p)

Construction ==
  \/ \E ref \in DocRefs : CreateDocument(ref)
  \/ \E ref \in DocRefs : \E triples \in SeqsUpTo(FetchedQuads(ref), MaxFetched),
        headers \in ResponseHeaders :
       FetchDocument(ref, triples, headers[1], headers[2])
  \/ \E d \in 1..MaxDocs, s \in SubjectRefs : GetSubject(d, s)
  \/ \E d \in 1..MaxDocs, s \in SubjectRefs : RemoveSubject(d, s)

\* The snapshot document (src/unnamed/part_001), save() called without argument.
Next ==
  \/ Construction
  \/ Staging
  \/ Replacing
  \/ \E d \in DOMAIN docs : SaveCall(d, accessedHandles(d))
  \/ \E i \in DOMAIN saves, headers \in ResponseHeaders :
       CreateResolve(i, headers[1], headers[2])
  \/ \E i \in DOMAIN saves : UpdateResolve(i)
  \/ \E i \in DOMAIN saves : TransportReject(i)

Spec == Init /\ [][Next]_vars

\* The store-backed document (src/unnamed/part_000), save() called without argument.
NextStore ==
  \/ \E ref \in DocRefs : CreateDocument(ref)
  \/ \E ref \in DocRefs, aclRef \in AclRefs \cup {NoRef} : StoreFetchDocument(ref, aclRef)
  \/ \E d \in 1..MaxDocs, s \in SubjectRefs : GetSubject(d, s)
  \/ Staging
  \/ \E d \in DOMAIN docs : StoreSaveCall(d, accessedHandles(d))
  \/ \E i \in DOMAIN saves, aclRef \in AclRefs \cup {NoRef} : StoreCreateResolve(i, aclRef)
  \/ \E i \in DOMAIN saves : StoreUpdateResolve(i)
  \/ \E i \in DOMAIN saves : TransportReject(i)

SpecStore == Init /\ [][NextStore]_vars

\* ------------------------------------------------------ subject lookups

\* Identifiers callers pass to addSubject.
Identifiers == {"s1", "s2"}

\* subjectRefs.map(getSubject)
RECURSIVE getSubjects(_, _, _)
getSubjects(table, d, subjectRefs) ==
  IF subjectRefs = <<>> THEN table
  ELSE getSubjects(getSubject(table, d, Head(subjectRefs)), d, Tail(subjectRefs))

\* The keys of accessedSubjects after these accesses, in order of first access.
RECURSIVE accessedAfter(_, _)
accessedAfter(accessed, subjectRefs) ==
  IF subjectRefs = <<>> THEN accessed
  ELSE accessedAfter(IF InSeq(Head(subjectRefs), accessed)
                     THEN accessed
                     ELSE Append(accessed, Head(subjectRefs)),
                     Tail(subjectRefs))

\* Document d looks up these subjects, one after the other.
Lookup(d, subjectRefs) ==
  /\ d \in DOMAIN docs
  /\ subjects' = getSubjects(subjects, d, subjectRefs)
  /\ Cardinality(DOMAIN subjects') <= MaxSubjects
  /\ docs' = [docs EXCEPT ![d].accessedSubjects = accessedAfter(@, subjectRefs)]
  /\ UNCHANGED <<metas, saves, pairs>>

\* The distinct subjects of the statements (?, predicateRef, objectRef) of the
\* document, in the order of the statements.
RECURSIVE findSubjectsInTriples(_, _, _, _)
findSubjectsInTriples(triples, predicateRef, objectRef, documentRef) ==
  IF triples = <<>> THEN <<>>
  ELSE LET t == triples[Len(triples)]
           before == findSubjectsInTriples(SubSeq(triples, 1, Len(triples) - 1),
                                           predicateRef, objectRef, documentRef)
       IN IF /\ t.predicate = predicateRef
             /\ t.object = NamedNode(objectRef)
             /\ t.graph = documentRef
             /\ ~InSeq(t.subject, before)
          THEN Append(before, t.subject)
          ELSE before

\* What findSubject returns when it returns null.
NoSubject == <<0, NoRef>>

\* findSubjectInTriples: the values it may return, one of the matching
\* subjects, whichever, or nothing when no statement matches.
findSubjectInTriples(triples, predicateRef, objectRef, documentRef) ==
  LET found == findSubjectsInTriples(triples, predicateRef, objectRef, documentRef)
  IN IF found = <<>> THEN {NoRef} ELSE {found[k] : k \in DOMAIN found}

\* findSubject without the test of the subject found.
findSubjectUntested(d, predicateRef, objectRef) ==
  {<<d, subjectRef>> :
     subjectRef \in findSubjectInTriples(getTriples(d), predicateRef, objectRef, asRef(d))}

\* findSubject(predicateRef, objectRef): the subjects it may return; null if
\* (!subjectRef || !isReference(subjectRef)), getSubject(subjectRef) otherwise.
findSubject(d, predicateRef, objectRef) ==
  {IF subjectRef = NoRef THEN NoSubject ELSE <<d, subjectRef>> :
     subjectRef \in findSubjectInTriples(getTriples(d), predicateRef, objectRef, asRef(d))}

\* findSubject(predicateRef, objectRef) called: the subject it returns is made
\* by getSubject on first access.
FindSubject(d, predicateRef, objectRef) ==
  /\ d \in DOMAIN docs
  /\ \E subject \in findSubject(d, predicateRef, objectRef) :
       IF subject = NoSubject
       THEN UNCHANGED vars
       ELSE Lookup(d, <<subject[2]>>)

\* findSubjects handing out the first matching subject only, as findSubject does.
FindSubjectsFirst(d, predicateRef, objectRef) ==
  /\ d \in DOMAIN docs
  /\ LET found == findSubjectsInTriples(getTriples(d), predicateRef, objectRef, asRef(d))
     IN Lookup(d, IF found = <<>> THEN <<>> ELSE <<Head(found)>>)

\* findSubjects(predicateRef, objectRef): subjectRefs.filter(isReference).map(getSubject)
FindSubjects(d, predicateRef, objectRef) ==
  /\ d \in DOMAIN docs
  /\ Lookup(d, findSubjectsInTriples(getTriples(d), predicateRef, objectRef, asRef(d)))

\* getSubjectsOfType(typeRef): findSubjects(rdf.type, typeRef)
GetSubjectsOfType(d, typeRef) == FindSubjects(d, RdfType, typeRef)

\* The prefixes callers pass to addSubject; the empty one is the default of
\* the parameter, taken when the caller passes none.
IdentifierPrefixes == {"", "n-"}

\* addSubject leaving the prefix out of the reference.
AddSubjectWithoutPrefix(d, identifier, identifierPrefix) ==
  /\ d \in DOMAIN docs
  /\ Lookup(d, <<asRef(d) \o "#" \o identifier>>)

\* addSubject({ identifier, identifierPrefix }):
\* getSubject(documentRef + '#' + identifierPrefix + identifier)
AddSubject(d, identifier, identifierPrefix) ==
  /\ d \in DOMAIN docs
  /\ Lookup(d, <<asRef(d) \o "#" \o identifierPrefix \o identifier>>)

\* The lookups of subjects, and staging through the subjects they return.
NextLookup ==
  \/ \E ref \in DocRefs : CreateDocument(ref)
  \/ \E ref \in DocRefs : \E triples \in SeqsUpTo(FetchedQuads(ref), MaxFetched),
        headers \in ResponseHeaders :
       FetchDocument(ref, triples, headers[1], headers[2])
  \/ \E d \in 1..MaxDocs, s \in SubjectRefs : Lookup(d, <<s>>)
  \/ \E d \in 1..MaxDocs, identifier \in Identifiers, prefix \in IdentifierPrefixes :
       AddSubject(d, identifier, prefix)
  \/ \E d \in 1..MaxDocs, p \in PredicateRefs, o \in ObjectRefs : FindSubject(d, p, o)
  \/ \E d \in 1..MaxDocs, p \in PredicateRefs, o \in ObjectRefs : FindSubjects(d, p, o)
  \/ \E d \in 1..MaxDocs, s \in SubjectRefs : RemoveSubject(d, s)
  \/ \E h \in Handles, p \in PredicateRefs, v \in LiteralValues : AddLiteral(h, p, v)
  \/ \E h \in Handles, p \in PredicateRefs, r \in ObjectRefs : AddNodeRef(h, p, r)

SpecLookup == Init /\ [][NextLookup]_vars

\* ------------------------------------------------- save(subjects) called
\* ------------------------------------------------- with an array of subjects

\* Subjects in the array given to save().
MaxArgument == 2

\* save() calls when arrays of subjects are given.
MaxArraySaves == 1

\* The reference of a second document.
OtherDocRefs == {"https://x.com/other"}

\* Two documents exist: the first created or fetched, the second created, at
\* the reference of the first or at another.
InitArgs ==
  /\ \E ref \in DocRefs, ref2 \in DocRefs \cup OtherDocRefs :
       \/ /\ metas = <<[existsOnPod |-> FALSE, aclRef |-> NoRef, webSocketRef |-> NoRef],
                        [existsOnPod |-> FALSE, aclRef |-> NoRef, webSocketRef |-> NoRef]>>
          /\ docs = <<instantiateDocument(ref, <<>>, 1), instantiateDocument(ref2, <<>>, 2)>>
       \/ \E triples \in SeqsUpTo(FetchedQuads(ref), MaxFetched) :
            /\ metas = <<[existsOnPod |-> TRUE, aclRef |-> NoRef, webSocketRef |-> NoRef],
                         [existsOnPod |-> FALSE, aclRef |-> NoRef, webSocketRef |-> NoRef]>>
            /\ docs = <<instantiateDocument(ref, triples, 1), instantiateDocument(ref2, <<>>, 2)>>
  /\ subjects = <<>>
  /\ saves = <<>>
  /\ pairs = <<>>

\* The arrays of subjects a caller may pass: subjects obtained from any document.
Arguments == SeqsUpTo(DOMAIN subjects, MaxArgument)

\* The snapshot document, save() called without argument or with an array.
NextArgs ==
  \/ \E d \in 1..MaxDocs, s \in SubjectRefs : GetSubject(d, s)
  \/ Staging
  \/ \E d \in DOMAIN docs :
       Len(saves) < MaxArraySaves /\ SaveCall(d, accessedHandles(d))
  \/ \E d \in DOMAIN docs, argument \in Arguments :
       Len(saves) < MaxArraySaves /\ SaveCall(d, argument)
  \/ \E i \in DOMAIN saves : CreateResolve(i, NoRef, NoRef)
  \/ \E i \in DOMAIN saves : UpdateResolve(i)
  \/ \E i \in DOMAIN saves : TransportReject(i)

SpecArgs == InitArgs /\ [][NextArgs]_vars

\* The store-backed document, save() called without argument or with an array.
NextStoreArgs ==
  \/ \E d \in 1..MaxDocs, s \in SubjectRefs : GetSubject(d, s)
  \/ Staging
  \/ \E d \in DOMAIN docs :
       Len(saves) < MaxArraySaves /\ StoreSaveCall(d, accessedHandles(d))
  \/ \E d \in DOMAIN docs, argument \in Arguments :
       Len(saves) < MaxArraySaves /\ StoreSaveCall(d, argument)
  \/ \E i \in DOMAIN saves : StoreCreateResolve(i, NoRef)
  \/ \E i \in DOMAIN saves : StoreUpdateResolve(i)
  \/ \E i \in DOMAIN saves : TransportReject(i)

SpecStoreArgs == InitArgs /\ [][NextStoreArgs]_vars


\* ------------------------------------------- references with a fragment

\* The snapshot document, created or fetched at any of Uris.
NextRefs ==
  \/ \E uri \in Uris : CreateDocument(uri)
  \/ \E uri \in Uris :
       \E triples \in SeqsUpTo(FetchedQuads(withoutFragment(uri)), MaxFetched) :
         FetchDocument(uri, triples, NoRef, NoRef)
  \/ \E d \in 1..MaxDocs, s \in SubjectRefs : GetSubject(d, s)
  \/ \E h \in Handles, p \in PredicateRefs, v \in LiteralValues : AddLiteral(h, p, v)
  \/ \E d \in DOMAIN docs : SaveCall(d, accessedHandles(d))
  \/ \E i \in DOMAIN saves : CreateResolve(i, NoRef, NoRef)
  \/ \E i \in DOMAIN saves : UpdateResolve(i)

SpecRefs == Init /\ [][NextRefs]_vars


\* ------------------------------------ a subject of a document with values

\* Statements held by the document the subject is read from.
MaxHeld == 2

\* The predicates and the text values used on the subject.
HeldPredicateRefs == PredicateRefs \cup {RdfType}
StagedValues == LiteralValues \cup {Text("b")}

\* The statements the document may hold: of one subject, of either predicate,
\* with a literal, a reference or a blank node as object.
HeldObjects ==
  Objects \cup {asLiteral(Text("b")), NamedNode("https://x.com/o2"), BlankNode("_:b0")}
HeldQuads(g) ==
  {Quad("https://x.com/doc#s1", p, o, g) : p \in HeldPredicateRefs, o \in HeldObjects}

\* A fetched document holding up to MaxHeld statements.
InitSubject ==
  /\ \E ref \in DocRefs : \E triples \in SeqsUpTo(HeldQuads(ref), MaxHeld) :
       docs = <<instantiateDocument(ref, triples, 1)>>
  /\ metas = <<[existsOnPod |-> TRUE, aclRef |-> NoRef, webSocketRef |-> NoRef]>>
  /\ subjects = <<>>
  /\ saves = <<>>
  /\ pairs = <<>>

\* The subjects of the document and every staging call on them; no save.
NextSubject ==
  \/ \E s \in SubjectRefs : GetSubject(1, s)
  \/ \E h \in Handles, p \in HeldPredicateRefs, v \in StagedValues : AddLiteral(h, p, v)
  \/ \E h \in Handles, p \in HeldPredicateRefs, r \in ObjectRefs : AddNodeRef(h, p, r)
  \/ \E h \in Handles, p \in HeldPredicateRefs, v \in StagedValues : RemoveLiteral(h, p, v)
  \/ \E h \in Handles, p \in HeldPredicateRefs, r \in ObjectRefs : RemoveNodeRef(h, p, r)
  \/ \E h \in Handles, p \in HeldPredicateRefs, v \in StagedValues : SetLiteral(h, p, v)
  \/ \E h \in Handles, p \in HeldPredicateRefs, r \in ObjectRefs : SetNodeRef(h, p, r)
  \/ \E h \in Handles, p \in HeldPredicateRefs : RemoveAll(h, p)

SpecSubject == InitSubject /\ [][NextSubject]_vars


\* ------------------------------------------------- literals of every type

\* The native values callers pass to addLiteral / removeLiteral.
NativeValues ==
  {Text("a"), Text(""),
   Number(13370), Number(0), Number(-30), Number(42), Number(-5),
   Date(1970, 0, 1, 0, 0, 0, 0), Date(4242, 0, 1, 0, 0, 0, 0),
   Date(2019, 11, 31, 23, 59, 58, 0), Date(2020, 1, 9, 8, 7, 6, 500)}

\* The literals a fetched document may hold: written by this library, written
\* by others with a text that does not fit the datatype, of a datatype the
\* library does not know, and with a language tag.
HeldLiterals ==
  {Literal("a", XsdString), Literal("1337", XsdInteger), Literal("4.2", XsdDecimal),
   Literal("1970-01-01T00:00:00Z", XsdDateTime),
   Literal("abc", XsdInteger), Literal("x", XsdDecimal), Literal("yesterday", XsdDateTime),
   Literal("P1D", "http://www.w3.org/2001/XMLSchema#duration"),
   LangLiteral("Arbitrary literal value", "en", "https://data.type/")}

\* A fetched document holding up to MaxFetched statements with such a literal.
InitCodec ==
  /\ \E ref \in DocRefs :
       \E triples \in SeqsUpTo({Quad("https://x.com/doc#s1", p, o, ref) :
                                  p \in PredicateRefs, o \in HeldLiterals}, MaxFetched) :
         docs = <<instantiateDocument(ref, triples, 1)>>
  /\ metas = <<[existsOnPod |-> TRUE, aclRef |-> NoRef, webSocketRef |-> NoRef]>>
  /\ subjects = <<>>
  /\ saves = <<>>
  /\ pairs = <<>>

\* The subjects of the document, and addLiteral / removeLiteral with a value
\* of every native type.
NextCodec ==
  \/ \E s \in SubjectRefs : GetSubject(1, s)
  \/ \E h \in Handles, p \in PredicateRefs, v \in NativeValues : AddLiteral(h, p, v)
  \/ \E h \in Handles, p \in PredicateRefs, v \in NativeValues : RemoveLiteral(h, p, v)

SpecCodec == InitCodec /\ [][NextCodec]_vars


\* ------------------------------------------- subjects found by a statement

\* The number of statements of the document that is searched.
MaxFound == 3

\* The objects searched for, and a literal whose text is the first of them.
FoundObjectRefs == ObjectRefs \cup {"https://x.com/o2"}
FoundObjects ==
  {NamedNode(r) : r \in FoundObjectRefs} \cup {Literal("https://x.com/o", XsdString)}

\* The statements the searched document may hold: of either subject, of
\* either predicate, with a reference or the literal as object.
FoundQuads(g) ==
  {Quad(s, p, o, g) : s \in SubjectRefs, p \in HeldPredicateRefs, o \in FoundObjects}

\* A fetched document holding up to MaxFound statements.
InitFind ==
  /\ \E ref \in DocRefs : \E triples \in SeqsUpTo(FoundQuads(ref), MaxFound) :
       docs = <<instantiateDocument(ref, triples, 1)>>
  /\ metas = <<[existsOnPod |-> TRUE, aclRef |-> NoRef, webSocketRef |-> NoRef]>>
  /\ subjects = <<>>
  /\ saves = <<>>
  /\ pairs = <<>>

\* The lookups of the document by reference, by statement and by type.
NextFind ==
  \/ \E s \in SubjectRefs : GetSubject(1, s)
  \/ \E p \in HeldPredicateRefs, o \in FoundObjectRefs : FindSubject(1, p, o)
  \/ \E p \in HeldPredicateRefs, o \in FoundObjectRefs : FindSubjects(1, p, o)
  \/ \E t \in FoundObjectRefs : GetSubjectsOfType(1, t)

SpecFind == InitFind /\ [][NextFind]_vars


\* ------------------------------------------------ pending pairs of callers

\* The number of pairs callers hold.
MaxPairs == 1

\* A caller calls getPendingStatements() on a subject and keeps the pair.
GetPendingStatements(h) ==
  /\ h \in DOMAIN subjects
  /\ Len(pairs) < MaxPairs
  /\ pairs' = Append(pairs, getPendingStatements(h))
  /\ UNCHANGED <<docs, metas, subjects, saves>>

\* One store-backed document, created or fetched.
InitPending ==
  /\ \E ref \in DocRefs, existsOnPod \in BOOLEAN :
       /\ docs = <<instantiateDocument(ref, <<>>, 1)>>
       /\ metas = <<[existsOnPod |-> existsOnPod, aclRef |-> NoRef, webSocketRef |-> NoRef]>>
  /\ subjects = <<>>
  /\ saves = <<>>
  /\ pairs = <<>>

\* The store-backed document with callers that read the pending statements.
NextPending ==
  \/ \E s \in SubjectRefs : GetSubject(1, s)
  \/ Staging
  \/ \E h \in Handles : GetPendingStatements(h)
  \/ \E d \in DOMAIN docs : StoreSaveCall(d, accessedHandles(d))
  \/ \E i \in DOMAIN saves, aclRef \in AclRefs \cup {NoRef} : StoreCreateResolve(i, aclRef)
  \/ \E i \in DOMAIN saves : StoreUpdateResolve(i)
  \/ \E i \in DOMAIN saves : TransportReject(i)

SpecPending == InitPending /\ [][NextPending]_vars


\* ------------------------------------------------------ removed subjects

\* The statements of the document a subject is removed from: of either
\* subject, with a literal or a reference as object.
RemovedQuads(g) == QuadsOf(g)

\* A fetched document holding up to MaxHeld statements.
InitRemove ==
  /\ \E ref \in DocRefs : \E triples \in SeqsUpTo(RemovedQuads(ref), MaxHeld) :
       docs = <<instantiateDocument(ref, triples, 1)>>
  /\ metas = <<[existsOnPod |-> TRUE, aclRef |-> NoRef, webSocketRef |-> NoRef]>>
  /\ subjects = <<>>
  /\ saves = <<>>
  /\ pairs = <<>>

\* Subjects are removed from the document, statements are added to them, and
\* the document is saved.
NextRemove ==
  \/ \E d \in 1..MaxDocs, s \in SubjectRefs : GetSubject(d, s)
  \/ \E d \in 1..MaxDocs, s \in SubjectRefs : RemoveSubject(d, s)
  \/ \E h \in Handles, p \in PredicateRefs, v \in LiteralValues : AddLiteral(h, p, v)
  \/ \E h \in Handles, p \in PredicateRefs, r \in ObjectRefs : AddNodeRef(h, p, r)
  \/ \E d \in DOMAIN docs : SaveCall(d, accessedHandles(d))
  \/ \E i \in DOMAIN saves : UpdateResolve(i)
  \/ \E i \in DOMAIN saves : TransportReject(i)

SpecRemove == InitRemove /\ [][NextRemove]_vars


\* ------------------------------------------------- headers of the responses

\* A link of a parsed Link header.
Link(uri, rel) == [uri |-> uri, rel |-> rel]

\* The Link headers of the responses: none, one without an ACL link, one with
\* a relative ACL link, one with an ACL link by path among others, and one
\* with two ACL links.
LinkHeaders ==
  {[present |-> FALSE, links |-> <<>>],
   [present |-> TRUE, links |-> <<Link("/doc.meta", "describedby")>>],
   [present |-> TRUE, links |-> <<Link("doc.acl", "acl")>>],
   [present |-> TRUE, links |-> <<Link("/doc.meta", "describedby"), Link("/acls/doc", "acl")>>],
   [present |-> TRUE, links |-> <<Link("doc.acl", "acl"), Link("https://y.com/acl", "acl")>>]}

\* The Updates-Via headers of the responses: none (headers.get gives null),
\* an empty one, and one with a value.
UpdatesViaHeaders == {NoRef, "", "wss://x.com"}

Responses == [link : LinkHeaders, updatesVia : UpdatesViaHeaders]

\* The path up to and with its last '/'.
RECURSIVE directory(_)
directory(pathname) ==
  IF pathname = "" \/ SubSeq(pathname, Len(pathname), Len(pathname)) = "/"
  THEN pathname
  ELSE directory(SubSeq(pathname, 1, Len(pathname) - 1))

\* new URL(uri, base).href for an absolute URL, a path and a relative path
\* without dot segments.
resolve(uri, base) ==
  IF Len(uri) >= 6 /\ SubSeq(uri, 1, 6) = "https:" THEN uri
  ELSE IF uri # "" /\ Head(uri) = "/" THEN URL(base).origin \o uri
  ELSE URL(base).origin \o directory(URL(base).pathname) \o uri

\* extractAclRef giving the target of the link as the header has it.
extractAclRefUnresolved(response, documentRef, LinkHeader) ==
  LET aclLinks == SelectSeq(response.link.links, LAMBDA l : l.rel = "acl")
  IN IF response.link.present /\ LinkHeader /\ Len(aclLinks) = 1
     THEN aclLinks[1].uri
     ELSE NoRef

\* extractAclRef(response, documentRef): if the header is there and the
\* LinkHeader parser is loaded, and the header has exactly one link of
\* rel "acl", its target resolved against the document; undefined otherwise.
extractAclRef(response, documentRef, LinkHeader) ==
  LET aclLinks == SelectSeq(response.link.links, LAMBDA l : l.rel = "acl")
  IN IF response.link.present /\ LinkHeader /\ Len(aclLinks) = 1
     THEN resolve(aclLinks[1].uri, documentRef)
     ELSE NoRef

\* response.headers.get('Updates-Via') || undefined, and the test
\* if (webSocketRef): an empty value counts as none.
extractWebSocketRef(response) ==
  IF response.updatesVia = "" THEN NoRef ELSE response.updatesVia

\* fetchDocument(uri) with the response it got.
FetchResponse(uri, triples, response, LinkHeader) ==
  FetchDocument(uri, triples,
                extractAclRef(response, withoutFragment(uri), LinkHeader),
                extractWebSocketRef(response))

\* save() after create resolved with this response.
CreateResponse(i, response, LinkHeader) ==
  /\ i \in DOMAIN saves
  /\ CreateResolve(i, extractAclRef(response, asRef(saves[i].document), LinkHeader),
                   extractWebSocketRef(response))

\* Documents are fetched and created, and saved; the responses to get and to
\* create carry any of the headers, and the LinkHeader parser is loaded or not.
NextHeaders ==
  \/ \E ref \in Uris : CreateDocument(ref)
  \/ \E uri \in Uris, response \in Responses, LinkHeader \in BOOLEAN :
       \E triples \in SeqsUpTo(FetchedQuads(withoutFragment(uri)), MaxFetched) :
         FetchResponse(uri, triples, response, LinkHeader)
  \/ \E d \in DOMAIN docs : SaveCall(d, accessedHandles(d))
  \/ \E i \in DOMAIN saves, response \in Responses, LinkHeader \in BOOLEAN :
       CreateResponse(i, response, LinkHeader)
  \/ \E i \in DOMAIN saves : UpdateResolve(i)
  \/ \E i \in DOMAIN saves : TransportReject(i)

SpecHeaders == Init /\ [][NextHeaders]_vars

\* ------------------------------------------------------------- properties

Range(s) == {s[k] : k \in DOMAIN s}

Count(x, s) == Cardinality({k \in DOMAIN s : s[k] = x})

IsPrefix(s, t) == Len(s) <= Len(t) /\ \A k \in DOMAIN s : s[k] = t[k]

\* s is t with some elements left out, the others in their order.
RECURSIVE IsSubseq(_, _)
IsSubseq(s, t) ==
  IF s = <<>> THEN TRUE
  ELSE IF t = <<>> THEN FALSE
  ELSE IF Head(s) = Head(t) THEN IsSubseq(Tail(s), Tail(t))
  ELSE IsSubseq(s, Tail(t))

\* The buffers the subjects of a save held when it was called, concatenated in
\* the order of the saved subjects.
RECURSIVE StagedDeletions(_, _)
StagedDeletions(relevant, staged) ==
  IF relevant = <<>> THEN <<>>
  ELSE staged[Head(relevant)].pendingDeletions \o StagedDeletions(Tail(relevant), staged)

RECURSIVE StagedAdditions(_, _)
StagedAdditions(relevant, staged) ==
  IF relevant = <<>> THEN <<>>
  ELSE staged[Head(relevant)].pendingAdditions \o StagedAdditions(Tail(relevant), staged)

DeletionsOf(i) == StagedDeletions(saves[i].relevantSubjects, saves[i].staged)
AdditionsOf(i) == StagedAdditions(saves[i].relevantSubjects, saves[i].staged)

Resolved == {i \in DOMAIN saves : saves[i].pc = "resolved"}
Rejected == {i \in DOMAIN saves : saves[i].pc = "rejected"}

\* The step is the success, or the failure, of the transport call of save i.
Resolves(i) == saves[i].pc = "awaiting" /\ saves'[i].pc = "resolved"
Rejects(i) == saves[i].pc = "awaiting" /\ saves'[i].pc = "rejected"

\* C1: when save() succeeds, the set of statements of the returned document is
\* (old \cup allAdditions) \ allDeletions, the additions and deletions being the
\* aggregated pending buffers of the saved subjects.
C1_ReturnedStatementSet ==
  \A i \in Resolved :
    Range(getTriples(saves[i].result)) =
      (Range(getTriples(saves[i].document)) \cup Range(AdditionsOf(i)))
        \ Range(DeletionsOf(i))

\* A save succeeded whose deletions removed a statement of the old document and
\* whose additions brought a statement that stayed.
C1_Witness ==
  \E i \in Resolved :
    /\ Range(DeletionsOf(i)) \cap Range(getTriples(saves[i].document)) # {}
    /\ Range(AdditionsOf(i)) \ Range(DeletionsOf(i)) # {}
    /\ Range(AdditionsOf(i)) \subseteq Range(getTriples(saves[i].result))

\* C2: after save() succeeds, every subject that was included in the save has
\* both pending buffers empty.
C2_SavedSubjectsAreCleared ==
  [][\A i \in DOMAIN saves :
       Resolves(i) =>
         \A h \in Range(saves[i].relevantSubjects) : subjects'[h] = initialiseSubject]_vars

\* C3: when the transport call of save() fails, the documents, their metadata
\* and every subject's pending buffers are what they were.
C3_FailedSaveChangesNothing ==
  [][\A i \in DOMAIN saves :
       Rejects(i) => docs' = docs /\ metas' = metas /\ subjects' = subjects]_vars

\* A save was rejected, and its subjects still hold the statements they had
\* staged when it was called.
C3_Witness ==
  \E i \in Rejected :
    /\ AdditionsOf(i) # <<>>
    /\ \A h \in Range(saves[i].relevantSubjects) : subjects[h] = saves[i].staged[h]

\* C4, as claimed: each staged deletion removes at most one equal occurrence
\* from oldStatements ++ allAdditions, so of k occurrences deleted once k-1 stay.
C4_DeletionRemovesOneOccurrence ==
  \A i \in Resolved :
    LET all == getTriples(saves[i].document) \o AdditionsOf(i)
        left == getTriples(saves[i].result)
    IN \A t \in Range(all) :
         Count(t, left) =
           IF Count(t, all) > Count(t, DeletionsOf(i))
           THEN Count(t, all) - Count(t, DeletionsOf(i))
           ELSE 0

\* What the filter of save() does: a staged deletion removes every equal
\* occurrence from oldStatements ++ allAdditions; the statements not staged for
\* deletion all stay, in their relative order.
C4_DeletionRemovesEveryOccurrence ==
  \A i \in Resolved :
    LET all == getTriples(saves[i].document) \o AdditionsOf(i)
        left == getTriples(saves[i].result)
    IN /\ IsSubseq(left, all)
       /\ \A t \in Range(all) :
            Count(t, left) = IF t \in Range(DeletionsOf(i)) THEN 0 ELSE Count(t, all)

\* A save succeeded for which a statement occurred twice in
\* oldStatements ++ allAdditions and was staged for deletion once: the
\* returned document holds no occurrence of it.
C4_Witness ==
  \E i \in Resolved :
    \E t \in Range(getTriples(saves[i].document) \o AdditionsOf(i)) :
      /\ Count(t, getTriples(saves[i].document) \o AdditionsOf(i)) = 2
      /\ Count(t, DeletionsOf(i)) = 1
      /\ Count(t, getTriples(saves[i].result)) = 0

\* C5: the statements a document exposes never change after its construction,
\* whatever is staged and whether a save succeeds or fails.
C5_TriplesNeverChange ==
  [][\A d \in DOMAIN docs :
       d \in DOMAIN docs' /\ docs'[d].triples = docs[d].triples]_vars

\* A save succeeded and returned a document with other statements than the
\* document it was called on, which still has its own.
C5_Witness ==
  \E i \in Resolved :
    /\ getTriples(saves[i].result) = saves[i].newTriples
    /\ getTriples(saves[i].result) # getTriples(saves[i].document)
    /\ getTriples(saves[i].document) # <<>>

\* C6: save() never changes the metadata of the document it is called on: it
\* reports the existsOnPod, ACL and WebSocket references it had before.
C6_SaveKeepsMetadata ==
  [][\A d \in DOMAIN docs :
       metas'[docs'[d].metadata] = metas[docs[d].metadata]]_vars

\* C7: on a document that is not on the Pod save() calls create with the
\* document's reference and the aggregated additions; on one that is it calls
\* update with the reference, the aggregated deletions and additions.
C7_CollaboratorByState ==
  \A i \in DOMAIN saves :
    saves[i].request =
      IF saves[i].existedOnPod
      THEN [call |-> "update", ref |-> asRef(saves[i].document),
            deletions |-> DeletionsOf(i), additions |-> AdditionsOf(i)]
      ELSE [call |-> "create", ref |-> asRef(saves[i].document),
            deletions |-> <<>>, additions |-> AdditionsOf(i)]

\* A create carrying additions and an update carrying deletions were sent.
C7_Witness ==
  \E i, j \in DOMAIN saves :
    /\ saves[i].request.call = "create" /\ saves[i].request.additions # <<>>
    /\ saves[j].request.call = "update" /\ saves[j].request.deletions # <<>>

\* C8: a document returned by a successful save is on the Pod, and no save on
\* a returned document ever calls create.
C8_SavedStaysSaved ==
  /\ \A i \in Resolved : metas[docs[saves[i].result].metadata].existsOnPod
  /\ \A j \in DOMAIN saves :
       (\E i \in Resolved : saves[i].result = saves[j].document)
         => saves[j].request.call = "update"

\* A created document was saved, and the document that save returned was
\* saved again.
C8_Witness ==
  \E i, j \in Resolved :
    /\ saves[i].request.call = "create"
    /\ saves[j].document = saves[i].result

\* No create for the metadata of document d has succeeded.
NeverCreated(d) ==
  \A k \in Resolved :
    docs[saves[k].document].metadata = docs[d].metadata => saves[k].request.call # "create"

C10_ClearedTogetherAfterSuccess ==
  [][\A h \in DOMAIN subjects :
       /\ h \in DOMAIN subjects'
       /\ \/ ~IsPrefix(subjects[h].pendingDeletions, subjects'[h].pendingDeletions)
          \/ ~IsPrefix(subjects[h].pendingAdditions, subjects'[h].pendingAdditions)
          => /\ subjects'[h] = initialiseSubject
             /\ \E i \in DOMAIN saves :
                  Resolves(i) /\ h \in Range(saves[i].relevantSubjects)]_vars

\* A save succeeded for a subject that had staged a deletion and an addition,
\* and both its buffers are empty.
C10_Witness ==
  \E i \in Resolved : \E h \in Range(saves[i].relevantSubjects) :
    /\ saves[i].staged[h].pendingDeletions # <<>>
    /\ saves[i].staged[h].pendingAdditions # <<>>
    /\ subjects[h] = initialiseSubject

\* C11: every save() sends exactly one request, a create or an update carrying
\* the whole aggregated diff, also when the diff is empty; a document is
\* returned only for a save whose request succeeded, and it holds the whole
\* diff applied to the statements of the saved document.
C11_OneRequestAllOrNothing ==
  /\ \A i \in DOMAIN saves :
       /\ saves[i].request.call \in {"create", "update"}
       /\ saves[i].request.additions = AdditionsOf(i)
       /\ saves[i].request.call = "update" => saves[i].request.deletions = DeletionsOf(i)
       /\ i \notin Resolved => saves[i].result = 0
  /\ \A i \in Resolved :
       /\ saves[i].result \in DOMAIN docs
       /\ \A j \in Resolved : saves[j].result = saves[i].result => j = i
       /\ getTriples(saves[i].result) =
            SelectSeq(getTriples(saves[i].document) \o AdditionsOf(i),
                      LAMBDA t : t \notin Range(DeletionsOf(i)))
  /\ Len(docs) = Len(metas) + Cardinality(Resolved)

\* A save with nothing staged sent its request and succeeded, and a save with
\* an addition staged was rejected and returned no document.
C11_Witness ==
  /\ \E i \in Resolved :
       /\ AdditionsOf(i) = <<>> /\ DeletionsOf(i) = <<>>
       /\ saves[i].request.call \in {"create", "update"}
  /\ \E j \in Rejected : AdditionsOf(j) # <<>>

\* C12: a document returns the same subject on every lookup of a reference,
\* through getSubject, addSubject, findSubject, findSubjects or removeSubject:
\* no step replaces a subject a document holds or drops what was staged
\* through it, and a document holds one subject for each reference accessed.
C12_LookupsReturnTheMemoizedSubject ==
  [][/\ \A h \in DOMAIN subjects :
          /\ h \in DOMAIN subjects'
          /\ IsPrefix(subjects[h].pendingDeletions, subjects'[h].pendingDeletions)
          /\ IsPrefix(subjects[h].pendingAdditions, subjects'[h].pendingAdditions)
     /\ \A d \in DOMAIN docs :
          IsPrefix(docs[d].accessedSubjects, docs'[d].accessedSubjects)
     /\ \A d \in DOMAIN docs' :
          \A k \in DOMAIN docs'[d].accessedSubjects :
            /\ <<d, docs'[d].accessedSubjects[k]>> \in DOMAIN subjects'
            /\ Count(docs'[d].accessedSubjects[k], docs'[d].accessedSubjects) = 1]_vars

\* A subject holds an addition, staged through the subject a lookup returned,
\* and a deletion, staged by removeSubject through its own lookup.
C12_Witness ==
  \E h \in DOMAIN subjects :
    /\ subjects[h].pendingAdditions # <<>>
    /\ subjects[h].pendingDeletions # <<>>
    /\ Count(h[2], docs[h[1]].accessedSubjects) = 1

\* The subjects of the array given to save i that were obtained from the
\* document instance save was called on, and those whose document has the
\* reference of that document.
OfTheInstance(i) ==
  SelectSeq(saves[i].argument, LAMBDA h : h[1] = saves[i].document)
OfTheReference(i) ==
  SelectSeq(saves[i].argument, LAMBDA h : asRef(h[1]) = asRef(saves[i].document))

\* Save i sent, and applied to the document it returned, what the subjects
\* `saved` held when it was called, and nothing else.
SavedOnly(i, saved) ==
  LET deletions == StagedDeletions(saved, saves[i].staged)
      additions == StagedAdditions(saved, saves[i].staged)
  IN /\ saves[i].request.additions = additions
     /\ saves[i].request.call = "update" => saves[i].request.deletions = deletions
     /\ i \in Resolved =>
          getTriples(saves[i].result) =
            SelectSeq(getTriples(saves[i].document) \o additions,
                      LAMBDA t : t \notin Range(deletions))

\* The subjects left out of save i still hold all they held when it was called.
OthersKept(i, saved) ==
  \A h \in Range(saves[i].argument) \ Range(saved) :
    /\ IsPrefix(saves[i].staged[h].pendingDeletions, subjects[h].pendingDeletions)
    /\ IsPrefix(saves[i].staged[h].pendingAdditions, subjects[h].pendingAdditions)

\* C13, as claimed: save(subjects) ignores every subject of the array that was
\* obtained from another document than the one save is called on: what it
\* holds is not sent, not applied to the new document, and not cleared.
C13_SubjectsOfOtherDocumentsIgnored ==
  \A i \in DOMAIN saves : SavedOnly(i, OfTheInstance(i)) /\ OthersKept(i, OfTheInstance(i))

\* C13, amended: save(subjects) ignores every subject of the array whose
\* document has another reference than the document save is called on; the
\* subjects of another document instance with the same reference are saved.
C13_SubjectsOfOtherReferencesIgnored ==
  \A i \in DOMAIN saves : SavedOnly(i, OfTheReference(i)) /\ OthersKept(i, OfTheReference(i))

\* A save succeeded that was given a subject of its document and a subject of
\* a document at another reference, each holding an addition: the returned
\* document has the first addition only, the other subject still holds its own.
C13_Witness ==
  \E i \in Resolved : \E own, other \in Range(saves[i].argument) :
    /\ own[1] = saves[i].document
    /\ asRef(other[1]) # asRef(saves[i].document)
    /\ saves[i].staged[own].pendingAdditions # <<>>
    /\ saves[i].staged[other].pendingAdditions # <<>>
    /\ getTriples(saves[i].result) = saves[i].staged[own].pendingAdditions
    /\ subjects[other] = saves[i].staged[other]

\* The position of x in the sequence s without repetitions, 0 when absent.
IndexOf(x, s) == IF InSeq(x, s) THEN CHOOSE k \in DOMAIN s : s[k] = x ELSE 0

\* C14: save(subjects) with an array of subjects of the document sends what
\* those subjects hold and nothing any other subject holds, and its success
\* leaves the buffers of every subject not in the array as they were; called
\* with the subjects the document has handed out, as it is without argument,
\* it covers every subject accessed on the document.
C14_OnlyTheGivenSubjectsSaved ==
  [][/\ \A i \in DOMAIN saves :
          Resolves(i) =>
            \A h \in DOMAIN subjects \ Range(saves[i].argument) :
              subjects'[h] = subjects[h]
     /\ Len(saves') = Len(saves) + 1 =>
          LET new == saves'[Len(saves')]
              given == SelectSeq(new.argument, LAMBDA h : asRef(h[1]) = asRef(new.document))
              held == [h \in Range(new.argument) |-> subjects[h]]
          IN /\ new.request.additions = StagedAdditions(given, held)
             /\ new.request.call = "update" =>
                  new.request.deletions = StagedDeletions(given, held)
             /\ new.argument = accessedHandles(new.document) =>
                  Range(new.relevantSubjects) =
                    {h \in DOMAIN subjects : h[1] = new.document}]_vars

\* A save succeeded that was given the second of the two subjects accessed on
\* its document: that subject held a statement and was cleared, the first
\* subject holds statements.
C14_Witness ==
  \E i \in Resolved : \E in, out \in DOMAIN subjects :
    /\ in[1] = saves[i].document /\ out[1] = saves[i].document
    /\ saves[i].argument = <<in>>
    /\ IndexOf(out[2], docs[out[1]].accessedSubjects) = 1
    /\ IndexOf(in[2], docs[in[1]].accessedSubjects) = 2
    /\ saves[i].staged[in] # initialiseSubject
    /\ subjects[in] = initialiseSubject
    /\ subjects[out] # initialiseSubject

\* The statements the first n subjects of `given` hold in a buffer.
RECURSIVE Before(_, _, _)
Before(given, buffers, n) ==
  IF n = 0 THEN 0 ELSE Len(buffers[n]) + Before(given, buffers, n - 1)

\* `sent` holds the buffers of the subjects of `given`, subject after subject
\* and each buffer in its own order: the k-th statement of the n-th subject
\* comes after all statements of the subjects before it and after the
\* statements staged earlier on the same subject.
InSubjectThenCallOrder(sent, given, buffers) ==
  /\ Len(sent) = Before(given, buffers, Len(given))
  /\ \A n \in DOMAIN given : \A k \in DOMAIN buffers[n] :
       sent[Before(given, buffers, n - 1) + k] = buffers[n][k]

\* C15: a staging call puts its statement after those the subject already
\* holds, and save() sends the additions, and the deletions, of its subjects
\* subject after subject in the order save iterates them, each subject's
\* statements in the order of the calls that staged them.
C15_SubjectOrderThenCallOrder ==
  [][/\ \A h \in DOMAIN subjects :
          /\ h \in DOMAIN subjects'
          /\ IsPrefix(subjects[h].pendingDeletions, subjects'[h].pendingDeletions)
          /\ IsPrefix(subjects[h].pendingAdditions, subjects'[h].pendingAdditions)
     /\ Len(saves') = Len(saves) + 1 =>
          LET new == saves'[Len(saves')]
              given == SelectSeq(new.argument, LAMBDA h : asRef(h[1]) = asRef(new.document))
              additions == [n \in DOMAIN given |-> subjects[given[n]].pendingAdditions]
              deletions == [n \in DOMAIN given |-> subjects[given[n]].pendingDeletions]
          IN /\ InSubjectThenCallOrder(new.request.additions, given, additions)
             /\ new.request.call = "update" =>
                  InSubjectThenCallOrder(new.request.deletions, given, deletions)]_vars

\* save() was given two subjects of its document in the reverse of the order
\* in which they were accessed, each holding an addition: the addition of the
\* subject given first was sent first.
C15_Witness ==
  \E i \in DOMAIN saves :
    /\ Len(saves[i].argument) = 2
    /\ LET first == saves[i].argument[1]
           second == saves[i].argument[2]
       IN /\ first[1] = saves[i].document /\ second[1] = saves[i].document
          /\ IndexOf(first[2], docs[first[1]].accessedSubjects) = 2
          /\ IndexOf(second[2], docs[second[1]].accessedSubjects) = 1
          /\ Len(saves[i].request.additions) = 2
          /\ saves[i].request.additions[1].subject = first[2]
          /\ saves[i].request.additions[2].subject = second[2]

\* C16: the reference of every document, created, fetched or returned by
\* save(), has no fragment.
C16_NoFragmentInAsRef ==
  \A d \in DOMAIN docs : URL(asRef(d)).hash = ""

\* A document was created at a reference with a fragment, statements were
\* staged with that reference as their graph, and the create request of its
\* save and the document save() returned carry the fragment too.
C16_Witness ==
  \E i \in DOMAIN saves :
    /\ i \in Resolved
    /\ saves[i].request.call = "create"
    /\ URL(saves[i].request.ref).hash = "#frag"
    /\ saves[i].request.additions # <<>>
    /\ \A n \in DOMAIN saves[i].request.additions :
         URL(saves[i].request.additions[n].graph).hash = "#frag"
    /\ URL(asRef(saves[i].document)).hash = "#frag"
    /\ URL(asRef(saves[i].result)).hash = "#frag"

\* What the code keeps: a document that exists on the Pod without a save
\* having been made on it, that is a fetched one, has no fragment in its
\* reference, and save() returns a document at the reference of its document.
C16_FetchedHasNoFragment ==
  /\ \A d \in DOMAIN docs :
       (saves = <<>> /\ metas[docs[d].metadata].existsOnPod) => URL(asRef(d)).hash = ""
  /\ \A i \in Resolved : asRef(saves[i].result) = asRef(saves[i].document)

\* C17: every statement pending on a subject has the reference of the
\* subject's document as its graph, and every statement of a document that
\* save() returned has the reference of that document as its graph.
C17_StatementsAreOfTheirDocument ==
  /\ \A h \in DOMAIN subjects :
       \A q \in Range(subjects[h].pendingAdditions) \cup Range(subjects[h].pendingDeletions) :
         q.graph = asRef(h[1])
  /\ \A i \in Resolved :
       \A q \in Range(getTriples(saves[i].result)) : q.graph = asRef(saves[i].result)

\* save() returned a document with statements, having been given a subject of
\* a document at another reference that holds a pending statement.
C17_Witness ==
  \E i \in Resolved :
    /\ getTriples(saves[i].result) # <<>>
    /\ \E h \in Range(saves[i].argument) :
         /\ asRef(h[1]) # asRef(saves[i].document)
         /\ subjects[h].pendingAdditions # <<>>

\* Everything the getters of a subject return.
Getters(h) ==
  [getStatements |-> getStatements(h),
   getType |-> getType(h),
   getLiteral |-> [p \in HeldPredicateRefs |-> getLiteral(h, p)],
   getAllLiterals |-> [p \in HeldPredicateRefs |-> getAllLiterals(h, p)],
   getNodeRef |-> [p \in HeldPredicateRefs |-> getNodeRef(h, p)],
   getAllNodeRefs |-> [p \in HeldPredicateRefs |-> getAllNodeRefs(h, p)]]

\* C18: no staging call (add*, remove*, set*, removeAll) on a subject changes
\* what a getter of any subject of the document returns.
C18_StagingLeavesGettersAlone ==
  [][\A h \in DOMAIN subjects' : Getters(h)' = Getters(h)]_vars

\* A subject reads the literal "a" and a type from its document while the
\* deletion of that literal and the addition of "b" are pending on it.
C18_Witness ==
  \E h \in DOMAIN subjects : \E p \in PredicateRefs :
    /\ getLiteral(h, p) = Text("a")
    /\ getType(h) # NoRef
    /\ Quad(h[2], p, asLiteral(Text("a")), asRef(h[1])) \in Range(subjects[h].pendingDeletions)
    /\ Quad(h[2], p, asLiteral(Text("b")), asRef(h[1])) \in Range(subjects[h].pendingAdditions)

\* The statements the document of h holds for the subject and a predicate, in
\* the order the document holds them.
HeldFor(h, p) ==
  SelectSeq(getTriples(h[1]),
            LAMBDA t : t.subject = h[2] /\ t.predicate = p /\ t.graph = asRef(h[1]))

\* The step puts `deleted` after the pending deletions of h and `added` after
\* its pending additions.
Stages(h, deleted, added) ==
  /\ subjects'[h].pendingDeletions = subjects[h].pendingDeletions \o deleted
  /\ subjects'[h].pendingAdditions = subjects[h].pendingAdditions \o added

\* C19: setLiteral(P, v) and setNodeRef(P, r) stage one deletion for every
\* statement the document holds for (subject, P), with a literal or a
\* reference as object and in the order the document holds them, and then
\* one addition, of the new value.
C19_SetClearsEveryValueThenSets ==
  [][\A h \in DOMAIN subjects : \A p \in HeldPredicateRefs :
       /\ \A v \in StagedValues :
            SetLiteral(h, p, v) =>
              Stages(h, HeldFor(h, p), <<Quad(h[2], p, Literal(v.text, XsdString), asRef(h[1]))>>)
       /\ \A r \in ObjectRefs :
            SetNodeRef(h, p, r) =>
              Stages(h, HeldFor(h, p), <<Quad(h[2], p, NamedNode(r), asRef(h[1]))>>)]_vars

\* The document holds [lit(P, "a"), ref(P, X)] for the subject, and
\* setLiteral(P, "b") has staged the deletion of both, in that order, and the
\* addition of lit(P, "b").
C19_Witness ==
  \E h \in DOMAIN subjects : \E p \in PredicateRefs : \E r \in ObjectRefs :
    LET document == asRef(h[1])
    IN /\ getTriples(h[1]) = <<Quad(h[2], p, Literal("a", XsdString), document),
                               Quad(h[2], p, NamedNode(r), document)>>
       /\ subjects[h].pendingDeletions = getTriples(h[1])
       /\ subjects[h].pendingAdditions = <<Quad(h[2], p, Literal("b", XsdString), document)>>

\* C20: removeAll(P) stages one deletion for every statement the document
\* holds for (subject, P), with a literal or a reference as object and in the
\* order the document holds them, and stages no addition.
C20_RemoveAllClearsEveryValue ==
  [][\A h \in DOMAIN subjects : \A p \in HeldPredicateRefs :
       RemoveAll(h, p) => Stages(h, HeldFor(h, p), <<>>)]_vars

\* The document holds [ref(P, X), lit(P, "a")] for the subject, and
\* removeAll(P) has staged the deletion of both, in that order, and nothing
\* else.
C20_Witness ==
  \E h \in DOMAIN subjects : \E p \in PredicateRefs : \E r \in ObjectRefs :
    LET document == asRef(h[1])
    IN /\ getTriples(h[1]) = <<Quad(h[2], p, NamedNode(r), document),
                               Quad(h[2], p, Literal("a", XsdString), document)>>
       /\ subjects[h].pendingDeletions = getTriples(h[1])
       /\ subjects[h].pendingAdditions = <<>>

\* The step leaves the subjects other than h as they are.
OnlyOn(h) ==
  /\ DOMAIN subjects' = DOMAIN subjects
  /\ \A g \in DOMAIN subjects \ {h} : subjects'[g] = subjects[g]

\* C21: addLiteral / addNodeRef put exactly one statement at the end of
\* pendingAdditions, removeLiteral / removeNodeRef exactly one at the end of
\* pendingDeletions, whatever the buffers and the document hold (the call
\* can be made and has that effect in every state with room under the
\* bound); the other buffer, the statements staged before and the other
\* subjects are unchanged.
C21_OneStatementPerCall ==
  /\ [](\A h \in DOMAIN subjects : \A p \in HeldPredicateRefs :
          LET lit(v) == Quad(h[2], p, Literal(v.text, XsdString), asRef(h[1]))
              ref(r) == Quad(h[2], p, NamedNode(r), asRef(h[1]))
          IN Staged < MaxStaged =>
               /\ \A v \in StagedValues :
                    /\ ENABLED (AddLiteral(h, p, v) /\ Stages(h, <<>>, <<lit(v)>>))
                    /\ ENABLED (RemoveLiteral(h, p, v) /\ Stages(h, <<lit(v)>>, <<>>))
               /\ \A r \in ObjectRefs :
                    /\ ENABLED (AddNodeRef(h, p, r) /\ Stages(h, <<>>, <<ref(r)>>))
                    /\ ENABLED (RemoveNodeRef(h, p, r) /\ Stages(h, <<ref(r)>>, <<>>)))
  /\ [][\A h \in DOMAIN subjects : \A p \in HeldPredicateRefs :
          LET lit(v) == Quad(h[2], p, Literal(v.text, XsdString), asRef(h[1]))
              ref(r) == Quad(h[2], p, NamedNode(r), asRef(h[1]))
          IN /\ \A v \in StagedValues :
                  /\ AddLiteral(h, p, v) => Stages(h, <<>>, <<lit(v)>>) /\ OnlyOn(h)
                  /\ RemoveLiteral(h, p, v) => Stages(h, <<lit(v)>>, <<>>) /\ OnlyOn(h)
             /\ \A r \in ObjectRefs :
                  /\ AddNodeRef(h, p, r) => Stages(h, <<>>, <<ref(r)>>) /\ OnlyOn(h)
                  /\ RemoveNodeRef(h, p, r) => Stages(h, <<ref(r)>>, <<>>) /\ OnlyOn(h)]_vars

\* A subject holds the same statement twice in one buffer, the statement
\* being one its document does not hold.
C21_Witness ==
  \E h \in DOMAIN subjects :
    \E buffer \in {subjects[h].pendingAdditions, subjects[h].pendingDeletions} :
      /\ Len(buffer) = 2
      /\ buffer[1] = buffer[2]
      /\ buffer[1] \notin Range(getTriples(h[1]))
      /\ getTriples(h[1]) # <<>>

\* C22: a staged deletion that equals no statement of the document removes
\* nothing when the save succeeds: the returned document holds the old
\* statements, in their order, followed by what was added, and just the old
\* statements if nothing was added.
C22_UnmatchedDeletionRemovesNothing ==
  \A i \in Resolved :
    LET old == getTriples(saves[i].document)
        kept == SelectSeq(AdditionsOf(i), LAMBDA t : t \notin Range(DeletionsOf(i)))
    IN Range(DeletionsOf(i)) \cap Range(old) = {} =>
         /\ getTriples(saves[i].result) = old \o kept
         /\ AdditionsOf(i) = <<>> => getTriples(saves[i].result) = old

\* A save succeeded on a document with statements, the only staged change
\* being deletions of statements the document does not hold: the update
\* carried them and the returned document holds the old statements.
C22_Witness ==
  \E i \in Resolved :
    /\ getTriples(saves[i].document) # <<>>
    /\ DeletionsOf(i) # <<>>
    /\ AdditionsOf(i) = <<>>
    /\ Range(DeletionsOf(i)) \cap Range(getTriples(saves[i].document)) = {}
    /\ saves[i].request.call = "update"
    /\ saves[i].request.deletions = DeletionsOf(i)
    /\ getTriples(saves[i].result) = getTriples(saves[i].document)

\* The positions of `held` whose object is of one of `kinds`, in order.
RECURSIVE PositionsOf(_, _, _)
PositionsOf(held, kinds, k) ==
  IF k > Len(held) THEN <<>>
  ELSE (IF held[k].object.termType \in kinds THEN <<k>> ELSE <<>>)
         \o PositionsOf(held, kinds, k + 1)

\* C23: getLiteral(P) is the decoded value of the first literal among the
\* statements the document holds for (subject, P), wherever references stand
\* among them, and null exactly if none of them has a literal as object.
C23_FirstLiteralInSourceOrder ==
  \A h \in DOMAIN subjects : \A p \in HeldPredicateRefs :
    LET held == HeldFor(h, p)
        at == PositionsOf(held, {"Literal"}, 1)
        others == SelectSeq(held, LAMBDA t : t.object.termType = "Literal")
    IN /\ getLiteral(h, p) = null <=> at = <<>>
       /\ at # <<>> =>
            /\ getLiteral(h, p) = fromLiteral(held[at[1]].object)
            /\ getLiteral(h, p) = fromLiteral(others[1].object)

\* A subject whose document holds a reference and then a literal for the
\* predicate reads the literal.
C23_Witness ==
  \E h \in DOMAIN subjects : \E p \in PredicateRefs :
    /\ Len(HeldFor(h, p)) = 2
    /\ HeldFor(h, p)[1].object.termType = "NamedNode"
    /\ HeldFor(h, p)[2].object = Literal("b", XsdString)
    /\ getLiteral(h, p) = Text("b")

\* C24: getNodeRef(P) is the first reference among the objects the document
\* holds for (subject, P), never a literal or a blank node, and null exactly
\* if none of them is a reference; getType() is getNodeRef(rdf:type).
C24_FirstReferenceInSourceOrder ==
  \A h \in DOMAIN subjects :
    /\ \A p \in HeldPredicateRefs :
         LET held == HeldFor(h, p)
             at == PositionsOf(held, {"NamedNode"}, 1)
         IN /\ getNodeRef(h, p) = NoRef <=> at = <<>>
            /\ at # <<>> => getNodeRef(h, p) = held[at[1]].object.value
    /\ getType(h) = getNodeRef(h, RdfType)
    /\ LET typed == PositionsOf(HeldFor(h, RdfType), {"NamedNode"}, 1)
       IN getType(h) = IF typed = <<>> THEN NoRef
                       ELSE HeldFor(h, RdfType)[typed[1]].object.value

\* A subject whose document holds a blank node and then a reference as its
\* types reads the reference as its type.
C24_Witness ==
  \E h \in DOMAIN subjects :
    /\ Len(HeldFor(h, RdfType)) = 2
    /\ HeldFor(h, RdfType)[1].object.termType = "BlankNode"
    /\ HeldFor(h, RdfType)[2].object.termType = "NamedNode"
    /\ getType(h) = HeldFor(h, RdfType)[2].object.value

\* C25: getAllLiterals(P) is the decoded literals, and getAllNodeRefs(P) the
\* references, among the objects the document holds for (subject, P), each in
\* the order held and without any object of another kind; both are empty if
\* the document holds nothing for (subject, P).
C25_AllOfOneKindInSourceOrder ==
  \A h \in DOMAIN subjects : \A p \in HeldPredicateRefs :
    LET held == HeldFor(h, p)
        literalsAt == PositionsOf(held, {"Literal"}, 1)
        referencesAt == PositionsOf(held, {"NamedNode"}, 1)
    IN /\ getAllLiterals(h, p) =
            [k \in DOMAIN literalsAt |-> fromLiteral(held[literalsAt[k]].object)]
       /\ getAllNodeRefs(h, p) =
            [k \in DOMAIN referencesAt |-> held[referencesAt[k]].object.value]
       /\ held = <<>> => getAllLiterals(h, p) = <<>> /\ getAllNodeRefs(h, p) = <<>>

\* A subject whose document holds a literal and a reference for the
\* predicate reads one literal and one reference, and a subject of which the
\* document holds nothing reads none.
C25_Witness ==
  /\ \E h \in DOMAIN subjects : \E p \in PredicateRefs :
       /\ Len(HeldFor(h, p)) = 2
       /\ Len(getAllLiterals(h, p)) = 1
       /\ Len(getAllNodeRefs(h, p)) = 1
  /\ \E h \in DOMAIN subjects : \A p \in HeldPredicateRefs :
       /\ HeldFor(h, p) = <<>>
       /\ getAllLiterals(h, p) = <<>>
       /\ getAllNodeRefs(h, p) = <<>>

\* A Date without its milliseconds; every other value as it is.
ToTheSecond(v) == IF v.type = "Date" THEN [v EXCEPT !.ms = 0] ELSE v

Last(seq) == seq[Len(seq)]

\* C26: the literal addLiteral stages for a text, an integer, another number
\* or a Date is read back by fromLiteral as a value of the same native type
\* and equal to it, a Date to the second.
C26_DecodeOfEncode ==
  [][\A h \in DOMAIN subjects : \A p \in PredicateRefs : \A v \in NativeValues :
       AddLiteral(h, p, v) =>
         LET literal == Last(subjects'[h].pendingAdditions).object
         IN /\ fromLiteral(literal).type = v.type
            /\ fromLiteral(literal) = ToTheSecond(v)]_vars

\* Literals staged for a negative number with a fraction and for a Date with
\* milliseconds are pending, and are read back as that number and as the
\* Date to the second.
C26_Witness ==
  \E h \in DOMAIN subjects :
    /\ Len(subjects[h].pendingAdditions) = 2
    /\ subjects[h].pendingAdditions[1].object = Literal("-0.5", XsdDecimal)
    /\ fromLiteral(subjects[h].pendingAdditions[1].object) = Number(-5)
    /\ subjects[h].pendingAdditions[2].object = Literal("2020-02-09T08:07:06Z", XsdDateTime)
    /\ fromLiteral(subjects[h].pendingAdditions[2].object) = Date(2020, 1, 9, 8, 7, 6, 0)

\* The literal expected for each native value of the model.
EncodedAs ==
  {<<Text("a"), "a", XsdString>>, <<Text(""), "", XsdString>>,
   <<Number(13370), "1337", XsdInteger>>, <<Number(0), "0", XsdInteger>>,
   <<Number(-30), "-3", XsdInteger>>, <<Number(42), "4.2", XsdDecimal>>,
   <<Number(-5), "-0.5", XsdDecimal>>,
   <<Date(1970, 0, 1, 0, 0, 0, 0), "1970-01-01T00:00:00Z", XsdDateTime>>,
   <<Date(4242, 0, 1, 0, 0, 0, 0), "4242-01-01T00:00:00Z", XsdDateTime>>,
   <<Date(2019, 11, 31, 23, 59, 58, 0), "2019-12-31T23:59:58Z", XsdDateTime>>,
   <<Date(2020, 1, 9, 8, 7, 6, 500), "2020-02-09T08:07:06Z", XsdDateTime>>}

\* C27: the literal addLiteral and removeLiteral stage has the datatype of the
\* native value: integer and the base-10 text for a whole number, decimal for
\* another number, dateTime and YYYY-MM-DDTHH:MM:SSZ in UTC for a Date, string
\* for a text.
C27_DatatypeByNativeValue ==
  [][/\ NativeValues = {e[1] : e \in EncodedAs}
     /\ \A h \in DOMAIN subjects : \A p \in PredicateRefs : \A e \in EncodedAs :
          /\ AddLiteral(h, p, e[1]) =>
               /\ Last(subjects'[h].pendingAdditions).object.value = e[2]
               /\ Last(subjects'[h].pendingAdditions).object.datatype = e[3]
          /\ RemoveLiteral(h, p, e[1]) =>
               /\ Last(subjects'[h].pendingDeletions).object.value = e[2]
               /\ Last(subjects'[h].pendingDeletions).object.datatype = e[3]]_vars

\* A subject holds the pending addition of an integer literal and the pending
\* deletion of a dateTime literal.
C27_Witness ==
  \E h \in DOMAIN subjects :
    /\ subjects[h].pendingAdditions # <<>>
    /\ subjects[h].pendingAdditions[1].object = Literal("-3", XsdInteger)
    /\ subjects[h].pendingDeletions # <<>>
    /\ subjects[h].pendingDeletions[1].object = Literal("2019-12-31T23:59:58Z", XsdDateTime)

\* C28: the literal getters never return NaN or an invalid Date, whatever the
\* text of the literals the document holds.
C28_GettersNeverYieldGarbage ==
  \A h \in DOMAIN subjects : \A p \in PredicateRefs :
    /\ getLiteral(h, p) \notin {NaN, InvalidDate}
    /\ \A k \in DOMAIN getAllLiterals(h, p) : getAllLiterals(h, p)[k] \notin {NaN, InvalidDate}

\* The document holds an integer literal with the text "abc" and the subject
\* reads NaN.
C28_Witness ==
  \E h \in DOMAIN subjects : \E p \in PredicateRefs :
    /\ get(h, p) = <<Literal("abc", XsdInteger)>>
    /\ getLiteral(h, p) = NaN
    /\ getAllLiterals(h, p) = <<NaN>>

\* A literal the typed getters know: without a language tag and of datatype
\* string, integer, decimal or dateTime.
Known(literal) ==
  /\ literal.language = ""
  /\ literal.datatype \in {XsdString, XsdInteger, XsdDecimal, XsdDateTime}

\* C29: a subject for which the document holds only literals of another
\* datatype, or with a language tag, reads null from getLiteral and nothing
\* from getAllLiterals.
C29_OtherLiteralsAreInvisible ==
  \A h \in DOMAIN subjects : \A p \in PredicateRefs :
    (\A k \in DOMAIN get(h, p) : isLiteral(get(h, p)[k]) /\ ~Known(get(h, p)[k])) =>
      /\ getLiteral(h, p) = null
      /\ getAllLiterals(h, p) = <<>>

\* The document holds a literal tagged "en" of a datatype of its own, and the
\* subject reads its text.
C29_Witness ==
  \E h \in DOMAIN subjects : \E p \in PredicateRefs :
    /\ get(h, p) = <<LangLiteral("Arbitrary literal value", "en", "https://data.type/")>>
    /\ getLiteral(h, p) = Text("Arbitrary literal value")
    /\ getAllLiterals(h, p) = <<Text("Arbitrary literal value")>>

\* C30: findSubjects(P, O) hands out exactly one subject for each distinct
\* subject that has a statement (s, P, O) of this document with the reference O
\* as object, and none when there is no such statement; statements whose
\* object is a literal, even one with the text of O, and statements of another
\* predicate or object add nothing. getSubjectsOfType(T) is
\* findSubjects(rdf:type, T).
SubjectsWith(d, predicateRef, objectRef) ==
  {t.subject : t \in {u \in Range(getTriples(d)) :
                       /\ u.predicate = predicateRef
                       /\ u.object = NamedNode(objectRef)}}

HandsOut(d, refs) ==
  /\ DOMAIN subjects' = DOMAIN subjects \cup {<<d, s>> : s \in refs}
  /\ \A h \in DOMAIN subjects : subjects'[h] = subjects[h]
  /\ Range(docs'[d].accessedSubjects) =
       Range(docs[d].accessedSubjects) \cup refs

FoundBy(d, predicateRef, objectRef) ==
  {<<d, subjectRef>> :
     subjectRef \in Range(findSubjectsInTriples(getTriples(d), predicateRef,
                                               objectRef, asRef(d)))}

C32_ReturnedPairIsASnapshot ==
  \A k \in DOMAIN pairs : contents(pairs[k]) = pairs[k].returned

\* A caller reads in a pair an addition that was staged after the pair was
\* returned.
C32_Witness ==
  \E k \in DOMAIN pairs :
    /\ pairs[k].returned = <<<<>>, <<>>>>
    /\ Len(contents(pairs[k])[2]) = 1

\* What does hold: the sequences of a pair change only by a staging call on
\* its subject; a save, whether it tells the subject or fails, leaves them as
\* they are.
C32_OnlyStagingShowsInThePair ==
  [][\A k \in DOMAIN pairs :
       \/ subjects'[pairs[k].subject] = subjects[pairs[k].subject]
       \/ \E i \in DOMAIN saves : saves'[i].pc # saves[i].pc
       => contents(pairs[k])' = contents(pairs[k])]_vars

\* C33: removeSubject(ref) stages, on the memoized subject of ref, the deletion
\* of every statement the document holds for ref, in their order, and no
\* addition, and leaves the other subjects and the document alone.  After a
\* successful save that was called with those deletions staged, the returned
\* document holds for ref no statement of the old document: it holds for ref
\* the additions that were staged on the subject and not staged for deletion.
OfSubject(triples, subjectRef) == SelectSeq(triples, LAMBDA t : t.subject = subjectRef)

\* The saves that succeeded, called when the deletion of every statement of a
\* subject that had statements was staged on it: <<save, handle>>.
RemovedBySave ==
  {x \in (DOMAIN saves) \X (DOMAIN subjects) :
     LET i == x[1]
         h == x[2]
         held == OfSubject(getTriples(saves[i].document), h[2])
     IN /\ saves[i].pc = "resolved"
        /\ h[1] = saves[i].document
        /\ InSeq(h, saves[i].relevantSubjects)
        /\ held # <<>>
        /\ \A k \in DOMAIN held : InSeq(held[k], saves[i].staged[h].pendingDeletions)}

C33_RemoveSubjectStagesEveryDeletion ==
  /\ [](/\ \A d \in DOMAIN docs : \A s \in SubjectRefs :
             <<d, s>> \in DOMAIN subjects /\ Staged + Len(OfSubject(getTriples(d), s)) <= MaxStaged
               => ENABLED RemoveSubject(d, s)
         /\ \A x \in RemovedBySave :
             LET staged == saves[x[1]].staged[x[2]]
             IN OfSubject(getTriples(saves[x[1]].result), x[2][2]) =
                  SelectSeq(staged.pendingAdditions,
                            LAMBDA t : ~InSeq(t, staged.pendingDeletions)))
  /\ [][\A d \in DOMAIN docs : \A s \in SubjectRefs :
         RemoveSubject(d, s) =>
           /\ DOMAIN subjects' = DOMAIN subjects \cup {<<d, s>>}
           /\ subjects'[<<d, s>>] =
                [pendingDeletions |->
                   getSubject(subjects, d, s)[<<d, s>>].pendingDeletions
                     \o OfSubject(getTriples(d), s),
                 pendingAdditions |->
                   getSubject(subjects, d, s)[<<d, s>>].pendingAdditions]
           /\ \A h \in DOMAIN subjects \ {<<d, s>>} : subjects'[h] = subjects[h]
           /\ \A e \in DOMAIN docs : getTriples(e)' = getTriples(e)
           /\ UNCHANGED <<metas, saves>>]_vars

\* The claim as stated: after such a save the returned document holds no
\* statement of the removed subject.
C33_NoStatementOfRemovedSubject ==
  \A x \in RemovedBySave :
    OfSubject(getTriples(saves[x[1]].result), x[2][2]) = <<>>

\* A subject with one statement was removed with an addition staged on it,
\* and the saved document holds for it the addition and nothing else.
C33_Witness ==
  \E x \in RemovedBySave :
    /\ Len(OfSubject(getTriples(saves[x[1]].document), x[2][2])) = 1
    /\ Len(OfSubject(getTriples(saves[x[1]].result), x[2][2])) = 1
    /\ OfSubject(getTriples(saves[x[1]].result), x[2][2])
         = saves[x[1]].staged[x[2]].pendingAdditions

\* A subject with two statements was removed and the saved document holds
\* nothing for it, while it still holds the statement of the other subject.
C33_WitnessOfTwo ==
  \E x \in RemovedBySave :
    /\ Len(saves[x[1]].staged[x[2]].pendingDeletions) = 2
    /\ getTriples(saves[x[1]].result) = <<>>


\* C34: addSubject({identifier, identifierPrefix}) returns the subject of the
\* document whose reference is the document's reference, '#', the prefix (none
\* by default) and the identifier, in that order; it makes that subject on
\* first access with nothing staged, leaves every subject that exists with
\* what it has staged, and leaves the statements of the documents alone.
C34_AddSubjectNamesTheSubject ==
  /\ [](\A d \in DOMAIN docs : \A identifier \in Identifiers, prefix \in IdentifierPrefixes :
         Cardinality(DOMAIN subjects) < MaxSubjects => ENABLED AddSubject(d, identifier, prefix))
  /\ [][\A d \in DOMAIN docs : \A identifier \in Identifiers, prefix \in IdentifierPrefixes :
         AddSubject(d, identifier, prefix) =>
           LET subjectRef == docs[d].documentRef \o "#" \o prefix \o identifier
           IN /\ DOMAIN subjects' = DOMAIN subjects \cup {<<d, subjectRef>>}
              /\ \A h \in DOMAIN subjects : subjects'[h] = subjects[h]
              /\ subjects'[<<d, subjectRef>>].pendingAdditions =
                   (IF <<d, subjectRef>> \in DOMAIN subjects
                    THEN subjects[<<d, subjectRef>>].pendingAdditions ELSE <<>>)
              /\ subjects'[<<d, subjectRef>>].pendingDeletions =
                   (IF <<d, subjectRef>> \in DOMAIN subjects
                    THEN subjects[<<d, subjectRef>>].pendingDeletions ELSE <<>>)
              /\ InSeq(subjectRef, docs'[d].accessedSubjects)
              /\ \A e \in DOMAIN docs : getTriples(e)' = getTriples(e)
              /\ UNCHANGED <<metas, saves>>]_vars

\* A document holds a statement and two subjects made by addSubject, one
\* with the prefix and one without, with nothing staged on them.
C34_Witness ==
  \E d \in DOMAIN docs :
    /\ getTriples(d) # <<>>
    /\ <<d, asRef(d) \o "#n-s1">> \in DOMAIN subjects
    /\ <<d, asRef(d) \o "#s2">> \in DOMAIN subjects
    /\ \A h \in DOMAIN subjects : subjects[h] = initialiseSubject


\* C35: the references a document has from the response to get or to create.
\* If the Link header is there, the parser of Link headers is loaded and the
\* header has exactly one link of rel "acl", the ACL reference is the target of
\* that link resolved against the reference of the document; an Updates-Via
\* header that is not empty gives the WebSocket reference as it stands; in
\* every other case a fetched document has null for the reference, and a
\* created one what the metadata held before.
AclTargets ==
  {<<"doc.acl", "https://x.com/doc.acl">>,
   <<"/acls/doc", "https://x.com/acls/doc">>,
   <<"https://y.com/acl", "https://y.com/acl">>}

ResolvedTarget(uri) == (CHOOSE x \in AclTargets : x[1] = uri)[2]

AclLinksOf(response) ==
  {k \in DOMAIN response.link.links : response.link.links[k].rel = "acl"}

TheAclLink(response) ==
  response.link.links[CHOOSE k \in AclLinksOf(response) : TRUE]

ReferencesFrom(response, LinkHeader, before) ==
  <<IF response.link.present /\ LinkHeader /\ Cardinality(AclLinksOf(response)) = 1
    THEN ResolvedTarget(TheAclLink(response).uri)
    ELSE before[1],
    IF response.updatesVia \notin {NoRef, ""} THEN response.updatesVia ELSE before[2]>>

ReferencesOf(d) == <<getAclRef(d), getWebSocketRef(d)>>

C35_ReferencesFromTheResponse ==
  [][/\ \A uri \in Uris, response \in Responses, LinkHeader \in BOOLEAN :
         \A triples \in SeqsUpTo(FetchedQuads(withoutFragment(uri)), MaxFetched) :
           FetchResponse(uri, triples, response, LinkHeader) =>
             ReferencesOf(Len(docs))' =
               ReferencesFrom(response, LinkHeader, <<NoRef, NoRef>>)
     /\ \A i \in DOMAIN saves : \A response \in Responses, LinkHeader \in BOOLEAN :
           CreateResponse(i, response, LinkHeader) =>
             ReferencesOf(Len(docs))' =
               ReferencesFrom(response, LinkHeader, ReferencesOf(saves[i].document))]_vars

\* The claim as stated: whenever the Link header holds a link of rel "acl" the
\* ACL reference is the resolved target of such a link, whenever there is an
\* Updates-Via header the WebSocket reference is its value, and with neither
\* header the references are null, or for create what they were.
StatedReferences(response, before, after) ==
  /\ response.link.present /\ AclLinksOf(response) # {}
       => after[1] \in {ResolvedTarget(response.link.links[k].uri) : k \in AclLinksOf(response)}
  /\ response.updatesVia # NoRef => after[2] = response.updatesVia
  /\ ~response.link.present /\ response.updatesVia = NoRef => after = before

C35_ReferencesWheneverTheHeaderIsThere ==
  [][/\ \A uri \in Uris, response \in Responses, LinkHeader \in BOOLEAN :
         \A triples \in SeqsUpTo(FetchedQuads(withoutFragment(uri)), MaxFetched) :
           FetchResponse(uri, triples, response, LinkHeader) =>
             StatedReferences(response, <<NoRef, NoRef>>, ReferencesOf(Len(docs))')
     /\ \A i \in DOMAIN saves : \A response \in Responses, LinkHeader \in BOOLEAN :
           CreateResponse(i, response, LinkHeader) =>
             StatedReferences(response, ReferencesOf(saves[i].document),
                              ReferencesOf(Len(docs))')]_vars

\* A created document was saved and has the ACL reference of a link given by
\* its path, resolved against the document, and the WebSocket reference of
\* the response.
C35_Witness ==
  \E i \in DOMAIN saves :
    /\ saves[i].pc = "resolved"
    /\ saves[i].request.call = "create"
    /\ ReferencesOf(saves[i].result) = <<"https://x.com/acls/doc", "wss://x.com">>


\* C36: a statement staged on a subject while a save that includes the subject
\* awaits its transport call was not part of the request of that save, and is
\* still pending on the subject when that save has succeeded.
StagedSinceCall(i, h) ==
  {q \in Range(subjects[h].pendingAdditions) :
     Count(q, subjects[h].pendingAdditions) > Count(q, saves[i].staged[h].pendingAdditions)}
  \cup
  {q \in Range(subjects[h].pendingDeletions) :
     Count(q, subjects[h].pendingDeletions) > Count(q, saves[i].staged[h].pendingDeletions)}

C36_StagedWhileAwaitingStaysPending ==
  [][\A i \in DOMAIN saves : \A h \in Range(saves[i].relevantSubjects) :
       Resolves(i) =>
         \A q \in StagedSinceCall(i, h) :
           \/ InSeq(q, subjects'[h].pendingAdditions)
           \/ InSeq(q, subjects'[h].pendingDeletions)]_vars

\* A save has succeeded and emptied the buffers of a subject that held more
\* statements than it held when the save was called.
C36_Witness ==
  \E i \in Resolved : \E h \in Range(saves[i].relevantSubjects) :
    /\ Range(saves[i].relevantSubjects) = {h}
    /\ saves[i].cleared >
         Len(saves[i].staged[h].pendingAdditions) + Len(saves[i].staged[h].pendingDeletions)
    /\ subjects[h] = initialiseSubject


\* C37: whatever the order of the save() calls on a document that is not on
\* the Pod and of their outcomes, create is called for the document at most
\* once, unless the earlier create had failed when the later one was called.
C37_OneCreateUnlessFailed ==
  \A i, j \in DOMAIN saves :
    /\ i < j
    /\ saves[i].document = saves[j].document
    /\ saves[i].request.call = "create"
    /\ saves[j].request.call = "create"
    => saves[i].pc = "rejected"

\* Two saves of one document have each called create, the second while the
\* first was awaiting, and both have succeeded.
C37_Witness ==
  \E i, j \in Resolved :
    /\ i < j
    /\ saves[i].document = saves[j].document
    /\ saves[i].request.call = "create"
    /\ saves[j].request.call = "create"
    /\ saves[i].result > saves[j].document


\* C38: a statement staged once is sent by at most one request that succeeds.
\* The buffers of a subject of the snapshot document only grow, so the k-th
\* statement of a buffer is the same staged statement for every save that
\* read the buffer.
SentAdditionBy(h, k) ==
  {i \in Resolved :
     /\ InSeq(h, saves[i].relevantSubjects)
     /\ k <= Len(saves[i].staged[h].pendingAdditions)}

SentDeletionBy(h, k) ==
  {i \in Resolved :
     /\ InSeq(h, saves[i].relevantSubjects)
     /\ saves[i].request.call = "update"
     /\ k <= Len(saves[i].staged[h].pendingDeletions)}

C38_SentByOneSuccessfulRequest ==
  \A h \in DOMAIN subjects :
    /\ \A k \in DOMAIN subjects[h].pendingAdditions : Cardinality(SentAdditionBy(h, k)) <= 1
    /\ \A k \in DOMAIN subjects[h].pendingDeletions : Cardinality(SentDeletionBy(h, k)) <= 1

\* A save created the document with one addition; a later save of the same
\* document, called when the document was on the Pod, sent the same addition
\* in its update; both succeeded.
C38_Witness ==
  \E i, j \in Resolved :
    /\ i < j
    /\ saves[i].request.call = "create"
    /\ saves[j].request.call = "update"
    /\ saves[j].document = saves[i].document
    /\ saves[j].request.additions = saves[i].request.additions
    /\ Len(saves[i].request.additions) = 1


\* C39: the document returned by the successful save of a document that was
\* not on the Pod holds exactly the statements sent to create, each as often
\* as it was sent, whatever was staged, deletions of staged additions included.
C39_CreatedDocumentIsWhatWasSent ==
  \A i \in Resolved :
    saves[i].request.call = "create" =>
      \A q \in Range(getTriples(saves[i].result)) \cup Range(saves[i].request.additions) :
        Count(q, getTriples(saves[i].result)) = Count(q, saves[i].request.additions)

\* A statement was staged as an addition and for deletion on a new document;
\* create was sent the statement and succeeded, and the returned document
\* does not hold it.
C39_Witness ==
  \E i \in Resolved :
    /\ saves[i].request.call = "create"
    /\ getTriples(saves[i].document) = <<>>
    /\ Len(saves[i].request.additions) = 1
    /\ InSeq(saves[i].request.additions[1], DeletionsOf(i))
    /\ getTriples(saves[i].result) = <<>>


\* C40: after one or more setLiteral / setNodeRef calls for one predicate on a
\* subject, and a successful save, the returned document holds exactly one
\* object for the subject and the predicate: the value of the last call.
\* Statements of a document never change, so n such calls leave the subject
\* with n times the deletions of the values the document holds and with the n
\* new values as additions.
RECURSIVE Repeated(_, _)
Repeated(s, n) == IF n = 0 THEN <<>> ELSE s \o Repeated(s, n - 1)

\* The saves that succeeded, called when a subject held what setLiteral /
\* setNodeRef calls for a predicate had staged: <<save, handle, predicate>>.
SavedAfterSets ==
  {x \in Resolved \X (DOMAIN subjects) \X PredicateRefs :
     LET i == x[1]
         h == x[2]
     IN /\ h[1] = saves[i].document
        /\ InSeq(h, saves[i].relevantSubjects)
        /\ saves[i].staged[h].pendingAdditions # <<>>
        /\ \A k \in DOMAIN saves[i].staged[h].pendingAdditions :
             saves[i].staged[h].pendingAdditions[k].predicate = x[3]
        /\ saves[i].staged[h].pendingDeletions =
             Repeated(currentDeletions(h, x[3]), Len(saves[i].staged[h].pendingAdditions))}

C40_LastSetValueIsTheOnlyObject ==
  \A x \in SavedAfterSets :
    LET i == x[1]
        h == x[2]
        set == saves[i].staged[h].pendingAdditions
    IN findObjects(getTriples(saves[i].result), h[2], x[3], asRef(saves[i].result))
         = <<set[Len(set)].object>>

\* The document held a value for the predicate, the value was set to the same
\* value and the document was saved: the returned document holds no object
\* for the predicate.
C40_Witness ==
  \E x \in SavedAfterSets :
    LET i == x[1]
        h == x[2]
        set == saves[i].staged[h].pendingAdditions
    IN /\ Len(set) = 1
       /\ findObjects(getTriples(saves[i].document), h[2], x[3], asRef(saves[i].document))
            = <<set[1].object>>
       /\ findObjects(getTriples(saves[i].result), h[2], x[3], asRef(saves[i].result)) = <<>>

\* Two values were set one after the other on a subject of a new document
\* and the document was saved: the returned document holds both.
C40_WitnessOfTwo ==
  \E x \in SavedAfterSets :
    LET i == x[1]
        h == x[2]
        set == saves[i].staged[h].pendingAdditions
    IN /\ Len(set) = 2
       /\ set[1] # set[2]
       /\ findObjects(getTriples(saves[i].result), h[2], x[3], asRef(saves[i].result))
            = <<set[1].object, set[2].object>>


====
